---- MODULE Spec2Model ----
(***************************************************************************)
(* Reconciliation and integrity engine of verra-relo (src/data_handler.py): *)
(* the CSV backup (Snapshot) is the source of truth, the Excel file         *)
(* (Artifact) is regenerated from it, and metadata.json records the MD5     *)
(* checksum of the Excel file at the engine's last metadata update.         *)
(*                                                                          *)
(* A DataFrame is [cols |-> sequence of column names,                       *)
(*                 rows |-> sequence of functions column -> string].        *)
(* All cell values are strings.                                             *)
(***************************************************************************)
EXTENDS Integers, Sequences, FiniteSets, TLC

\* ------------------------------------------------------------------ bounds
\* Calendar days the model runs through (datetime.now() is unbounded).
MaxDay == 2

\* ------------------------------------------------------- sample input data
\* strftime('%Y-%m-%d') of successive days.
DayNames == <<"2024-01-01", "2024-01-02", "2024-01-03", "2024-01-04">>

\* Unique keys in their string sort order.
KeyOrder == <<"001", "002", "003">>

\* Keys the acquisition step delivers.
FetchKeys == {"001", "002"}

\* Values the acquisition step delivers in the second column, per key.
\* "NA" is ordinary text on the page (read_html keeps it: keep_default_na=False).
FetchNames(k) == IF k = "001" THEN {"Alice", "NA"} ELSE {"Bob", "Bobby"}

\* The one sheet main.py uses for a single-table source.
DataSheet == "data"

\* The file name generate_filename gives the source "acme".
ExcelName == "acme.xlsx"

\* ---------------------------------------------------------- DataFrame kit
ColSet(df) == {df.cols[i] : i \in 1..Len(df.cols)}

HasCol(df, c) == c \in ColSet(df)

\* DataFrame.empty: any axis of length 0.
IsEmpty(df) == Len(df.rows) = 0 \/ Len(df.cols) = 0

\* df.drop(col, axis=1)
DropCol(df, c) ==
    [cols |-> SelectSeq(df.cols, LAMBDA x : x # c),
     rows |-> [i \in 1..Len(df.rows) |->
                 [x \in ColSet(df) \ {c} |-> df.rows[i][x]]]]

\* df[col] as a sequence of cell values
Column(df, c) == [i \in 1..Len(df.rows) |-> df.rows[i][c]]

\* set(df[col].values)
ColValues(df, c) == {df.rows[i][c] : i \in 1..Len(df.rows)}

Rank(s) == IF \E i \in 1..Len(KeyOrder) : KeyOrder[i] = s
           THEN CHOOSE i \in 1..Len(KeyOrder) : KeyOrder[i] = s
           ELSE 0

RECURSIVE InsertSorted(_, _, _)
InsertSorted(sorted, r, c) ==
    IF sorted = <<>> THEN <<r>>
    ELSE IF Rank(r[c]) < Rank(Head(sorted)[c])
         THEN <<r>> \o sorted
         ELSE <<Head(sorted)>> \o InsertSorted(Tail(sorted), r, c)

RECURSIVE SortPrefix(_, _, _)
SortPrefix(rows, n, c) ==
    IF n = 0 THEN <<>>
    ELSE InsertSorted(SortPrefix(rows, n - 1, c), rows[n], c)

\* df.sort_values(by=col).reset_index(drop=True)
sort_values(df, c) == [cols |-> df.cols, rows |-> SortPrefix(df.rows, Len(df.rows), c)]

\* pd.concat([a, b], ignore_index=True): the columns of a, then those only b
\* has; a cell a frame lacks is NaN, which every writer stores as ''.
concat(a, b) ==
    LET extra == SelectSeq(b.cols, LAMBDA x : ~HasCol(a, x))
        cols  == a.cols \o extra
        all   == ColSet(a) \cup ColSet(b)
        fill(df, r) == [x \in all |-> IF HasCol(df, x) THEN r[x] ELSE ""]
    IN [cols |-> cols,
        rows |-> [i \in 1..Len(a.rows) |-> fill(a, a.rows[i])]
                 \o [i \in 1..Len(b.rows) |-> fill(b, b.rows[i])]]

\* ------------------------------------------------------ text conversions
\* Strings pandas' CSV and Excel readers take for a missing value.
NaStrings == {"", "NA", "N/A", "nan", "NaN", "null", "NULL", "None", "n/a", "#N/A"}

\* Reading a cell with dtype=str and then fillna('').
read_cell(v) == IF v \in NaStrings THEN "" ELSE v

\* str_val[:-2] for the strings of the model that end in '.0'.
StripDotZero(v) == IF v = "7.0" THEN "7" ELSE IF v = "12345678.0" THEN "12345678" ELSE v

format_second_column_value(val) ==
    IF val = "" \/ val = "nan" THEN "" ELSE StripDotZero(val)

\* _format_dataframe_for_csv and _format_dataframe_for_excel: every cell is
\* already a string; the second column goes through the helper.
FormatSecondColumn(df) ==
    IF Len(df.cols) >= 2
    THEN [cols |-> df.cols,
          rows |-> [i \in 1..Len(df.rows) |->
                      [x \in ColSet(df) |->
                         IF x = df.cols[2]
                         THEN format_second_column_value(df.rows[i][x])
                         ELSE df.rows[i][x]]]]
    ELSE df

format_dataframe_for_csv(df) == FormatSecondColumn(df)

format_dataframe_for_excel(df) == FormatSecondColumn(df)

\* What a reader (read_csv / read_excel, dtype=str, fillna('')) sees of a table.
ReadTable(t) ==
    [cols |-> t.cols,
     rows |-> [i \in 1..Len(t.rows) |->
                 [x \in ColSet(t) |-> read_cell(t.rows[i][x])]]]

\* ------------------------------------------------------------ files on disk
\* A CSV backup file: absent, or a header and rows.
NoCsv == [exists |-> FALSE, cols |-> <<>>, rows |-> <<>>]

\* An Excel file: absent, or sheets (name, header, rows) plus what makes its
\* bytes differ between two writes of the same cells: who saved it and the
\* save time openpyxl/Excel embed in the workbook.
NoExcel == [exists |-> FALSE, sheets |-> <<>>, by |-> "none", stamp |-> 0]

\* _calculate_file_checksum: MD5 of the bytes, '' for a missing file.  MD5 is
\* taken as injective on the files of the model, so the digest is the bytes.
calculate_file_checksum(xl) == IF xl.exists THEN xl ELSE NoExcel

\* metadata.json entry of the Excel file (absent: the key is not in the dict).
NoEntry == [present |-> FALSE, checksum |-> NoExcel, sheet_names |-> <<>>]

\* The save time of a file written now: time has moved on since the digest in
\* metadata.json was taken, so the new bytes never equal the recorded ones.
FreshStamp(md) == IF md.checksum.stamp = 1 THEN 2 ELSE 1

Sheet(name, df) == [name |-> name, cols |-> df.cols, rows |-> df.rows]

HasSheet(xl, name) == \E i \in 1..Len(xl.sheets) : xl.sheets[i].name = name

SheetOf(xl, name) == xl.sheets[CHOOSE i \in 1..Len(xl.sheets) : xl.sheets[i].name = name]

\* The cells of the workbook, without what only its bytes carry.
Content(xl) == xl.sheets

\* ------------------------------------------------------- Metadata Registry
is_excel_manipulated(xl, md) ==
    IF ~xl.exists THEN FALSE
    ELSE IF ~md.present THEN FALSE
    ELSE calculate_file_checksum(xl) # md.checksum

\* _update_file_metadata (the last_updated timestamp is not modelled)
update_file_metadata(xl, sheet_names) ==
    [present |-> TRUE,
     checksum |-> calculate_file_checksum(xl),
     sheet_names |-> sheet_names]

verify_file_integrity(xl, md) == ~is_excel_manipulated(xl, md)

\* ----------------------------------------------------------- Snapshot Store
\* _create_csv_backup: the file to_csv leaves on disk
create_csv_backup(df) ==
    LET f == format_dataframe_for_csv(df)
    IN [exists |-> TRUE, cols |-> f.cols, rows |-> f.rows]

\* _load_csv_backup: None (exists = FALSE) for a missing file, else the frame
\* read_csv(dtype=str).fillna('') gives
load_csv_backup(file) ==
    IF ~file.exists THEN NoCsv
    ELSE LET t == ReadTable(file)
         IN [exists |-> TRUE, cols |-> t.cols, rows |-> t.rows]

\* ----------------------------------------------------------- Artifact Writer
\* _write_excel_direct: a new workbook holding the one sheet
write_excel_direct(df, sheet_name, md) ==
    [exists |-> TRUE,
     sheets |-> <<Sheet(sheet_name, format_dataframe_for_excel(df))>>,
     by |-> "engine",
     stamp |-> FreshStamp(md)]

\* pd.read_excel(filepath, sheet_name=..., dtype=str).fillna(''); exists =
\* FALSE stands for the exception a missing sheet raises
read_excel_sheet(xl, sheet_name) ==
    IF xl.exists /\ HasSheet(xl, sheet_name)
    THEN LET t == ReadTable(SheetOf(xl, sheet_name))
         IN [exists |-> TRUE, cols |-> t.cols, rows |-> t.rows]
    ELSE NoCsv

\* ------------------------------------------------------ Reconciliation Engine
get_unique_column_name(df) == df.cols[1]

\* Variant: the column is added but left without the date.
add_created_date_column_undated(df, day) ==
    [cols |-> IF HasCol(df, "created_date") THEN df.cols
              ELSE Append(df.cols, "created_date"),
     rows |-> [i \in 1..Len(df.rows) |->
                 [x \in ColSet(df) \cup {"created_date"} |->
                    IF x = "created_date" THEN "" ELSE df.rows[i][x]]]]

add_created_date_column(df, day) ==
    [cols |-> IF HasCol(df, "created_date") THEN df.cols
              ELSE Append(df.cols, "created_date"),
     rows |-> [i \in 1..Len(df.rows) |->
                 [x \in ColSet(df) \cup {"created_date"} |->
                    IF x = "created_date" THEN day ELSE df.rows[i][x]]]]

dataframes_are_equal(df1, df2, unique_col) ==
    IF IsEmpty(df1) /\ IsEmpty(df2) THEN TRUE
    ELSE IF IsEmpty(df1) \/ IsEmpty(df2) THEN FALSE
    ELSE LET c1 == IF HasCol(df1, "created_date") THEN DropCol(df1, "created_date") ELSE df1
             c2 == IF HasCol(df2, "created_date") THEN DropCol(df2, "created_date") ELSE df2
         IN IF ~HasCol(c1, unique_col) \/ ~HasCol(c2, unique_col) THEN FALSE
            ELSE LET s1 == sort_values(c1, unique_col)
                     s2 == sort_values(c2, unique_col)
                 IN IF Len(s1.rows) # Len(s2.rows) \/ Len(s1.cols) # Len(s2.cols)
                    THEN FALSE
                    ELSE \A x \in ColSet(s1) :
                           HasCol(s2, x) => Column(s1, x) = Column(s2, x)

detect_data_changes(new_data, csv_backup, unique_col) ==
    LET n == IF HasCol(new_data, "created_date")
             THEN DropCol(new_data, "created_date") ELSE new_data
        c == IF HasCol(csv_backup, "created_date")
             THEN DropCol(csv_backup, "created_date") ELSE csv_backup
    IN ~dataframes_are_equal(n, c, unique_col)

\* Variant: the filter without its negation keeps the rows already known.
find_new_rows_known(new_df, existing_df, unique_col) ==
    LET existing_values == IF IsEmpty(existing_df) THEN {}
                           ELSE ColValues(existing_df, unique_col)
    IN [cols |-> new_df.cols,
        rows |-> SelectSeq(new_df.rows, LAMBDA r : r[unique_col] \in existing_values)]

find_new_rows(new_df, existing_df, unique_col) ==
    LET existing_values == IF IsEmpty(existing_df) THEN {}
                           ELSE ColValues(existing_df, unique_col)
    IN [cols |-> new_df.cols,
        rows |-> SelectSeq(new_df.rows, LAMBDA r : r[unique_col] \notin existing_values)]

\* The value of custom_mapping for a key: to_dict keeps the last row of a key.
LastIndexOf(df, unique_col, k) ==
    CHOOSE j \in 1..Len(df.rows) :
        /\ df.rows[j][unique_col] = k
        /\ \A m \in (j + 1)..Len(df.rows) : df.rows[m][unique_col] # k

preserve_custom_columns(new_data, existing_excel_data) ==
    IF IsEmpty(existing_excel_data) THEN new_data
    ELSE LET custom_cols == SelectSeq(existing_excel_data.cols,
                                      LAMBDA x : ~HasCol(new_data, x))
         IN IF custom_cols = <<>> THEN new_data
            ELSE LET unique_col == get_unique_column_name(new_data)
                     custom == {custom_cols[i] : i \in 1..Len(custom_cols)}
                     value(r, x) ==
                        IF /\ HasCol(existing_excel_data, unique_col)
                           /\ r[unique_col] \in ColValues(existing_excel_data, unique_col)
                        THEN existing_excel_data.rows[
                                LastIndexOf(existing_excel_data, unique_col,
                                            r[unique_col])][x]
                        ELSE ""
                 IN [cols |-> new_data.cols \o custom_cols,
                     rows |-> [i \in 1..Len(new_data.rows) |->
                                 [x \in ColSet(new_data) \cup custom |->
                                    IF x \in custom
                                    THEN value(new_data.rows[i], x)
                                    ELSE new_data.rows[i][x]]]]

\* write_excel_incremental, lines 563-574: what a detected change does to the
\* CSV backup.  New keys are appended; without a new key the fetched frame
\* replaces the backup.
\* Variant: a merge that also refreshes the rows it already has from the fetch.
merge_fetched_upsert(new_data, csv_backup, unique_col, day) ==
    LET new_rows == find_new_rows(new_data, csv_backup, unique_col)
        fetched(k) == CHOOSE r \in {new_data.rows[j] : j \in 1..Len(new_data.rows)} :
                         r[unique_col] = k
        refreshed ==
            [cols |-> csv_backup.cols,
             rows |-> [i \in 1..Len(csv_backup.rows) |->
                         IF csv_backup.rows[i][unique_col] \in ColValues(new_data, unique_col)
                         THEN [x \in ColSet(csv_backup) |->
                                 IF HasCol(new_data, x) /\ x # "created_date"
                                 THEN fetched(csv_backup.rows[i][unique_col])[x]
                                 ELSE csv_backup.rows[i][x]]
                         ELSE csv_backup.rows[i]]]
    IN IF Len(new_rows.rows) > 0
       THEN [updated_csv_data |-> concat(refreshed, new_rows),
             new_rows_count |-> Len(new_rows.rows)]
       ELSE [updated_csv_data |-> add_created_date_column(new_data, day),
             new_rows_count |-> 0]

\* Variant: without a new key the backup is patched in place, keeping the rows
\* the fetch omits and every created_date.
merge_fetched_patch(new_data, csv_backup, unique_col, day) ==
    LET new_rows == find_new_rows(new_data, csv_backup, unique_col)
        fetched(k) == CHOOSE r \in {new_data.rows[j] : j \in 1..Len(new_data.rows)} :
                         r[unique_col] = k
        patched ==
            [cols |-> csv_backup.cols,
             rows |-> [i \in 1..Len(csv_backup.rows) |->
                         IF csv_backup.rows[i][unique_col] \in ColValues(new_data, unique_col)
                         THEN [x \in ColSet(csv_backup) |->
                                 IF HasCol(new_data, x) /\ x # "created_date"
                                 THEN fetched(csv_backup.rows[i][unique_col])[x]
                                 ELSE csv_backup.rows[i][x]]
                         ELSE csv_backup.rows[i]]]
    IN IF Len(new_rows.rows) > 0
       THEN [updated_csv_data |-> concat(csv_backup, new_rows),
             new_rows_count |-> Len(new_rows.rows)]
       ELSE [updated_csv_data |-> patched, new_rows_count |-> 0]

merge_fetched(new_data, csv_backup, unique_col, day) ==
    LET new_rows == find_new_rows(new_data, csv_backup, unique_col)
    IN IF Len(new_rows.rows) > 0
       THEN [updated_csv_data |-> concat(csv_backup, new_rows),
             new_rows_count |-> Len(new_rows.rows)]
       ELSE [updated_csv_data |-> add_created_date_column(new_data, day),
             new_rows_count |-> 0]

\* write_excel_incremental, lines 580-584 and 594-598
attach_custom_columns(data, excel_was_manipulated, current_excel_data) ==
    IF excel_was_manipulated /\ current_excel_data.exists
    THEN preserve_custom_columns(data, current_excel_data)
    ELSE data

\* write_excel_incremental(dataframe, filename, sheet_name): the files it
\* leaves and the values it returns.  csv_file, xl and md are the CSV backup,
\* the Excel file and the metadata entry it finds.
write_excel_incremental(dataframe, csv_file, xl, md, sheet_name, day) ==
    LET unique_col == get_unique_column_name(dataframe)
        new_data == add_created_date_column(dataframe, day)
        loaded == load_csv_backup(csv_file)
        excel_was_manipulated == is_excel_manipulated(xl, md)
        current_excel_data ==
            IF xl.exists /\ excel_was_manipulated
            THEN read_excel_sheet(xl, sheet_name) ELSE NoCsv
    IN IF loaded.exists /\ ~IsEmpty(loaded)
       THEN LET csv_backup == IF HasCol(loaded, "created_date") THEN loaded
                              ELSE add_created_date_column(loaded, day)
                changes_detected == detect_data_changes(new_data, csv_backup, unique_col)
            IN IF changes_detected
               THEN LET m == merge_fetched(new_data, csv_backup, unique_col, day)
                        final_data == attach_custom_columns(m.updated_csv_data,
                                          excel_was_manipulated, current_excel_data)
                        written == write_excel_direct(final_data, sheet_name, md)
                    IN [csv |-> create_csv_backup(m.updated_csv_data),
                        excel |-> written,
                        metadata |-> update_file_metadata(written, <<sheet_name>>),
                        final_data |-> final_data,
                        total_rows |-> Len(final_data.rows),
                        new_rows_count |-> m.new_rows_count,
                        flow |-> IF m.new_rows_count > 0 THEN "C-merge" ELSE "C-replace",
                        manipulated |-> excel_was_manipulated]
               ELSE LET final_data == attach_custom_columns(csv_backup,
                                          excel_was_manipulated, current_excel_data)
                        written == write_excel_direct(final_data, sheet_name, md)
                    IN [csv |-> csv_file,
                        excel |-> written,
                        metadata |-> update_file_metadata(written, <<sheet_name>>),
                        final_data |-> final_data,
                        total_rows |-> Len(final_data.rows),
                        new_rows_count |-> 0,
                        flow |-> "B",
                        manipulated |-> excel_was_manipulated]
       ELSE LET written == write_excel_direct(new_data, sheet_name, md)
            IN [csv |-> create_csv_backup(new_data),
                excel |-> written,
                metadata |-> update_file_metadata(written, <<sheet_name>>),
                final_data |-> new_data,
                total_rows |-> Len(new_data.rows),
                new_rows_count |-> Len(new_data.rows),
                flow |-> "A",
                manipulated |-> excel_was_manipulated]

\* _write_excel_multiple_sheets_direct: one workbook, the sheets in order
write_excel_multiple_sheets_direct(dataframes, sheet_names, md) ==
    [exists |-> TRUE,
     sheets |-> [i \in 1..Len(dataframes) |->
                   Sheet(sheet_names[i], format_dataframe_for_excel(dataframes[i]))],
     by |-> "engine",
     stamp |-> FreshStamp(md)]

\* The CSV backup of a sheet (os.path.exists on _get_csv_backup_path).
CsvAt(csvs, sheet_name) ==
    IF sheet_name \in DOMAIN csvs THEN csvs[sheet_name] ELSE NoCsv

\* Variant of the loop body: without a new key the CSV backup is left alone.
process_sheet_keep(df, csv_file, xl, excel_was_manipulated, sheet_name, day) ==
    LET unique_col == get_unique_column_name(df)
        new_data == add_created_date_column(df, day)
        loaded == load_csv_backup(csv_file)
    IN IF loaded.exists /\ ~IsEmpty(loaded)
       THEN LET new_rows == find_new_rows(new_data, loaded, unique_col)
                merged == IF Len(new_rows.rows) > 0 THEN concat(loaded, new_rows)
                          ELSE loaded
            IN [csv |-> IF Len(new_rows.rows) > 0 THEN create_csv_backup(merged)
                        ELSE csv_file,
                wrote_csv |-> Len(new_rows.rows) > 0,
                updated_df |-> merged,
                total_rows |-> Len(merged.rows),
                new_count |-> Len(new_rows.rows)]
       ELSE [csv |-> create_csv_backup(new_data), wrote_csv |-> TRUE,
             updated_df |-> new_data,
             total_rows |-> Len(new_data.rows), new_count |-> Len(new_data.rows)]

\* write_multiple_sheets_incremental, lines 665-725: one turn of the loop over
\* the sheets.  csv is the CSV backup the turn leaves, wrote_csv tells whether
\* it called _create_csv_backup, updated_df is the frame it queues for Excel.
process_sheet(df, csv_file, xl, excel_was_manipulated, sheet_name, day) ==
    LET unique_col == get_unique_column_name(df)
        new_data == add_created_date_column(df, day)
        loaded == load_csv_backup(csv_file)
        current_excel_data ==
            IF xl.exists /\ excel_was_manipulated
            THEN read_excel_sheet(xl, sheet_name) ELSE NoCsv
        keep(data) == IF excel_was_manipulated /\ current_excel_data.exists
                      THEN preserve_custom_columns(data, current_excel_data)
                      ELSE data
    IN IF loaded.exists /\ ~IsEmpty(loaded)
       THEN LET csv_backup == IF HasCol(loaded, "created_date") THEN loaded
                              ELSE add_created_date_column(loaded, day)
            IN IF detect_data_changes(new_data, csv_backup, unique_col)
               THEN LET new_rows == find_new_rows(new_data, csv_backup, unique_col)
                        updated_csv_data ==
                            IF Len(new_rows.rows) > 0
                            THEN concat(csv_backup, new_rows)
                            ELSE add_created_date_column(new_data, day)
                        updated_df == keep(updated_csv_data)
                    IN [csv |-> create_csv_backup(updated_csv_data),
                        wrote_csv |-> TRUE,
                        updated_df |-> updated_df,
                        total_rows |-> Len(updated_df.rows),
                        new_count |-> Len(new_rows.rows)]
               ELSE LET updated_df == keep(csv_backup)
                    IN [csv |-> csv_file, wrote_csv |-> FALSE,
                        updated_df |-> updated_df,
                        total_rows |-> Len(updated_df.rows),
                        new_count |-> 0]
       ELSE [csv |-> create_csv_backup(new_data), wrote_csv |-> TRUE,
             updated_df |-> new_data,
             total_rows |-> Len(new_data.rows), new_count |-> Len(new_data.rows)]

\* Position of a sheet name in a list of distinct names, 0 when absent.
IndexOf(names, n) ==
    IF \E i \in 1..Len(names) : names[i] = n
    THEN CHOOSE i \in 1..Len(names) : names[i] = n ELSE 0

\* write_multiple_sheets_incremental, lines 727-734: all sheets written to the
\* Excel file at once, the metadata entry, and the list of results.  turns
\* are the loop's turns, one per sheet.
finish_sheets(turns, csvs, md, sheet_names, excel_was_manipulated) ==
    LET written == write_excel_multiple_sheets_direct(
                       [i \in 1..Len(turns) |-> turns[i].updated_df], sheet_names, md)
    IN [csv |-> [n \in DOMAIN csvs |->
                   IF IndexOf(sheet_names, n) > 0
                   THEN turns[IndexOf(sheet_names, n)].csv ELSE csvs[n]],
        excel |-> written,
        metadata |-> update_file_metadata(written, sheet_names),
        results |-> [i \in 1..Len(turns) |-> <<turns[i].total_rows, turns[i].new_count>>],
        manipulated |-> excel_was_manipulated]

\* write_multiple_sheets_incremental(dataframes, filename, sheet_names): the
\* files it leaves and the (total_rows, new_rows) pairs it returns.  csvs are
\* the CSV backups by sheet name.
write_multiple_sheets_incremental(dataframes, csvs, xl, md, sheet_names, day) ==
    finish_sheets([i \in 1..Len(dataframes) |->
                     process_sheet(dataframes[i], CsvAt(csvs, sheet_names[i]), xl,
                                   is_excel_manipulated(xl, md), sheet_names[i], day)],
                  csvs, md, sheet_names, is_excel_manipulated(xl, md))

\* _restore_from_csv_backup: the Excel file it leaves.  Without a CSV backup it
\* logs a warning and leaves the file as it is.
restore_from_csv_backup(xl, csvs, sheet_names, md) ==
    IF Len(sheet_names) = 1
    THEN LET df == load_csv_backup(CsvAt(csvs, sheet_names[1]))
         IN IF df.exists THEN write_excel_direct(df, sheet_names[1], md) ELSE xl
    ELSE LET valid_sheets == SelectSeq(sheet_names,
                                 LAMBDA n : load_csv_backup(CsvAt(csvs, n)).exists)
             dataframes == [i \in 1..Len(valid_sheets) |->
                              load_csv_backup(CsvAt(csvs, valid_sheets[i]))]
         IN IF Len(dataframes) > 0
            THEN write_excel_multiple_sheets_direct(dataframes, valid_sheets, md)
            ELSE xl

\* force_restore_from_backup(filename): the sheet names come from metadata.json
force_restore_sheet_names(md) == IF md.present THEN md.sheet_names ELSE <<"Data">>

\* --------------------------------------------------------------- the state
VARIABLES
    csv_files,   \* data/backups/acme_<sheet>.csv, by sheet name
    excel,       \* data/acme.xlsx
    metadata,    \* the entry of acme.xlsx in data/backups/metadata.json
    today,       \* index into DayNames of datetime.now()'s date
    ret,         \* the last call: its arguments, what it found, what it returned
    calls,       \* by thread: the DataHandler call it is in, statement by statement
    others       \* the files and the metadata.json entry of the source "globex"

vars == <<csv_files, excel, metadata, today, ret, calls, others>>

\* Sheets of acme.xlsx: "data" for one fetched table, Table_1 and Table_2 for
\* two (main.py), "Data" the default of the restore functions.
MultiSheets == <<"Table_1", "Table_2">>

SheetNames == {DataSheet, "Data", MultiSheets[1], MultiSheets[2]}

\* Threads of web_server.py that run the batch: the scheduler loop and the
\* thread POST /api/run starts.
Threads == {"scheduler", "run_now"}

\* The second source of config.json and its Excel file.
OtherName == "globex.xlsx"

Files == {ExcelName, OtherName}

\* A thread that is not inside a DataHandler call.
IdleCall ==
    [pc |-> "idle", filename |-> "", multi |-> FALSE, dataframes |-> <<>>,
     sheet_names |-> <<>>, i |-> 0, excel_was_manipulated |-> FALSE,
     updated_csv_data |-> NoCsv, all_updated_dfs |-> <<>>, results |-> <<>>,
     checksum |-> NoExcel, loaded |-> <<>>, events |-> <<>>]

\* Nothing of the source "globex" on disk.  corrupt: metadata.json is on disk
\* but json.load cannot parse it.
NoOther == [csv |-> NoCsv, excel |-> NoExcel, metadata |-> NoEntry, corrupt |-> FALSE]

\* Tables the acquisition step can deliver: columns id and name, rows with
\* pairwise distinct keys, in any order; a table may have no rows.
FetchRows == {[id |-> k, name |-> v] : k \in FetchKeys, v \in {"Alice", "NA", "Bob", "Bobby"}}

FetchedTables ==
    {[cols |-> <<"id", "name">>, rows |-> rs] :
        rs \in {s \in UNION {[1..n -> FetchRows] : n \in 0..Cardinality(FetchKeys)} :
                  /\ \A i \in 1..Len(s) : s[i].name \in FetchNames(s[i].id)
                  /\ \A i, j \in 1..Len(s) : i # j => s[i].id # s[j].id}}

NoFrame == [cols |-> <<>>, rows |-> <<>>]

NoRet ==
    [op |-> "none", fetched |-> NoFrame, no_backup |-> FALSE, flow |-> "",
     manipulated |-> FALSE, total_rows |-> 0, new_rows_count |-> 0,
     restored |-> FALSE, result |-> NoCsv, chain |-> FALSE, repeat |-> FALSE]

Init ==
    /\ csv_files = [s \in SheetNames |-> NoCsv]
    /\ excel = NoExcel
    /\ metadata = NoEntry
    /\ today = 1
    /\ ret = NoRet
    /\ calls = [t \in Threads |-> IdleCall]
    /\ others = NoOther

\* ----------------------------------------------------------- engine calls
\* main.py: one table fetched, write_excel_incremental(df, filename, "data")
Reconcile ==
    \E df \in FetchedTables :
        LET r == write_excel_incremental(df, csv_files[DataSheet], excel, metadata,
                                         DataSheet, DayNames[today])
        IN /\ csv_files' = [csv_files EXCEPT ![DataSheet] = r.csv]
           /\ excel' = r.excel
           /\ metadata' = r.metadata
           /\ ret' = [NoRet EXCEPT
                        !.op = "reconcile", !.fetched = df,
                        !.no_backup = ~csv_files[DataSheet].exists,
                        !.flow = r.flow,
                        !.manipulated = r.manipulated,
                        !.total_rows = r.total_rows,
                        !.new_rows_count = r.new_rows_count,
                        !.chain = (r.flow = "A" \/ (ret.chain /\ ret.fetched = df)),
                        !.repeat = (ret.chain /\ ret.fetched = df)]
           /\ UNCHANGED <<today, calls, others>>

\* force_restore_from_backup(filename)
ForceRestore ==
    LET sheet_names == force_restore_sheet_names(metadata)
        restored == restore_from_csv_backup(excel, csv_files, sheet_names, metadata)
    IN /\ excel' = restored
       /\ metadata' = update_file_metadata(restored, sheet_names)
       /\ ret' = [NoRet EXCEPT !.op = "force_restore",
                               !.restored = (restored # excel)]
       /\ UNCHANGED <<csv_files, today, calls, others>>

\* read_excel(filename, "data"): restores a manipulated file first; the read
\* raises (result.exists = FALSE) when the file or the sheet is missing
ReadExcel ==
    LET manipulated == is_excel_manipulated(excel, metadata)
        restored == IF manipulated
                    THEN restore_from_csv_backup(excel, csv_files,
                                                 metadata.sheet_names, metadata)
                    ELSE excel
    IN /\ excel' = restored
       /\ ret' = [NoRet EXCEPT !.op = "read_excel",
                               !.manipulated = manipulated,
                               !.restored = (manipulated /\ restored # excel),
                               !.result = read_excel_sheet(restored, DataSheet)]
       /\ UNCHANGED <<csv_files, metadata, today, calls, others>>

\* ------------------------------------------------------------ environment
\* A person opens acme.xlsx, changes the data sheet and saves it.
UserSave(t) ==
    /\ excel' = [exists |-> TRUE, sheets |-> <<Sheet(DataSheet, t)>>,
                 by |-> "user", stamp |-> FreshStamp(metadata)]
    /\ ret' = [NoRet EXCEPT !.op = "edit"]
    /\ UNCHANGED <<csv_files, metadata, today, calls, others>>

\* One editing session between two engine writes.
Editable == excel.exists /\ excel.by = "engine" /\ HasSheet(excel, DataSheet)

\* adds the column Notes with "VIP" in one row
UserAddColumn ==
    /\ Editable
    /\ LET t == SheetOf(excel, DataSheet)
       IN /\ ~HasCol(t, "Notes")
          /\ \E v \in 1..Len(t.rows) \cup {0} :
                /\ (v = 0) = (Len(t.rows) = 0)
                /\ UserSave([cols |-> Append(t.cols, "Notes"),
                             rows |-> [i \in 1..Len(t.rows) |->
                                         [x \in ColSet(t) \cup {"Notes"} |->
                                            IF x = "Notes"
                                            THEN (IF i = v THEN "VIP" ELSE "")
                                            ELSE t.rows[i][x]]]])

\* overwrites the second cell of the first row
UserEditCell ==
    /\ Editable
    /\ LET t == SheetOf(excel, DataSheet)
       IN /\ Len(t.rows) > 0 /\ Len(t.cols) >= 2
          /\ t.rows[1][t.cols[2]] # "Edited"
          /\ UserSave([cols |-> t.cols,
                       rows |-> [t.rows EXCEPT ![1] =
                                   [t.rows[1] EXCEPT ![t.cols[2]] = "Edited"]]])

\* appends a row with the first key the sheet does not have
UserAddRow ==
    /\ Editable
    /\ LET t == SheetOf(excel, DataSheet)
       IN /\ Len(t.cols) >= 1
          /\ \E n \in 1..Len(KeyOrder) :
                /\ KeyOrder[n] \notin ColValues(t, t.cols[1])
                /\ \A m \in 1..(n - 1) : KeyOrder[m] \in ColValues(t, t.cols[1])
                /\ UserSave([cols |-> t.cols,
                             rows |-> Append(t.rows,
                                        [x \in ColSet(t) |->
                                           IF x = t.cols[1] THEN KeyOrder[n]
                                           ELSE IF x = "Notes" THEN "added"
                                           ELSE IF x = "created_date" THEN ""
                                           ELSE "Carol"])])

\* deletes the last row
UserDeleteRow ==
    /\ Editable
    /\ LET t == SheetOf(excel, DataSheet)
       IN /\ Len(t.rows) > 0
          /\ UserSave([cols |-> t.cols,
                       rows |-> SubSeq(t.rows, 1, Len(t.rows) - 1)])

\* midnight passes
AdvanceDay ==
    /\ today < MaxDay
    /\ today' = today + 1
    /\ ret' = [ret EXCEPT !.op = "midnight"]
    /\ UNCHANGED <<csv_files, excel, metadata, calls, others>>

Next ==
    \/ Reconcile
    \/ ForceRestore
    \/ ReadExcel
    \/ UserAddColumn
    \/ UserEditCell
    \/ UserAddRow
    \/ UserDeleteRow
    \/ AdvanceDay

Spec == Init /\ [][Next]_vars

\* ------------------------------------------------- calls, write by write
\* The files of a source as the DataHandler finds them.
ExcelOf(f) == IF f = ExcelName THEN excel ELSE others.excel

\* Variant of _load_metadata: the entries last written, whether or not the
\* file can be parsed.
EntryOf_unparsed(f) == IF f = ExcelName THEN metadata ELSE others.metadata

\* _load_metadata()[f], with the default of metadata.get: a file json.load
\* cannot parse is read as the empty dict (lines 52-57).
EntryOf(f) ==
    IF others.corrupt THEN NoEntry
    ELSE IF f = ExcelName THEN metadata ELSE others.metadata

CsvsOf(f) ==
    IF f = ExcelName THEN csv_files
    ELSE [n \in SheetNames |-> IF n = DataSheet THEN others.csv ELSE NoCsv]

\* _load_metadata: the whole dict of metadata.json
Registry == [f \in Files |-> EntryOf(f)]

\* A thread is inside a DataHandler call.
InFlight(t) == calls[t].pc \notin {"idle", "returned", "raised", "dead"}

\* Tables the page of a source delivers in the runs followed write by write:
\* one row, or that row and a second one.
SmallTables ==
    {t \in FetchedTables :
        /\ Len(t.rows) >= 1
        /\ t.rows[1] = [id |-> "001", name |-> "Alice"]
        /\ \A i \in 1..Len(t.rows) : t.rows[i].name \in {"Alice", "Bob"}}

\* The page of the source has had one table so far (no Table_n backup), or
\* several (no backup of the sheet "data").
SingleSoFar == \A i \in 1..Len(MultiSheets) : ~csv_files[MultiSheets[i]].exists

MultiSoFar == ~csv_files[DataSheet].exists

\* A call that is over: its local variables are gone; what it was called for
\* and the writes it made are kept for the record.
Over(c, pc, event) ==
    [IdleCall EXCEPT !.pc = pc, !.filename = c.filename, !.multi = c.multi,
                     !.sheet_names = c.sheet_names,
                     !.events = IF event = "" THEN c.events ELSE Append(c.events, event)]

\* to_csv on the CSV backup of sheet n of file f
PutCsv(f, n, file) ==
    IF f = ExcelName
    THEN csv_files' = [csv_files EXCEPT ![n] = file] /\ others' = others
    ELSE others' = [others EXCEPT !.csv = file] /\ csv_files' = csv_files

\* pd.ExcelWriter on the Excel file f
PutExcel(f, xl) ==
    IF f = ExcelName
    THEN excel' = xl /\ others' = others
    ELSE others' = [others EXCEPT !.excel = xl] /\ excel' = excel

\* Variant of the statement order: straight to the Excel file, the CSV backup
\* not yet written.
after_prepare_excel_first(writes_csv) == "excel"

\* write_excel_incremental, lines 576-619: the statement that follows the
\* reads and the merge: the CSV backup when it changes, else the Excel file.
after_prepare(writes_csv) == IF writes_csv THEN "csv" ELSE "excel"

\* main.py 79-85 into write_excel_incremental, lines 522-574: the reads of the
\* CSV backup, of metadata.json and of the Excel file, and the merge
BeginSingle(t, f, df) ==
    /\ ~InFlight(t)
    /\ LET r == write_excel_incremental(df, CsvsOf(f)[DataSheet], ExcelOf(f),
                                         EntryOf(f), DataSheet, DayNames[today])
       IN calls' = [calls EXCEPT ![t] =
                      [IdleCall EXCEPT
                         !.pc = after_prepare(r.flow # "B"),
                         !.filename = f,
                         !.dataframes = <<df>>,
                         !.sheet_names = <<DataSheet>>,
                         !.i = 1,
                         !.excel_was_manipulated = r.manipulated,
                         !.updated_csv_data = IF r.flow # "B" THEN r.csv ELSE NoCsv,
                         !.all_updated_dfs = <<r.final_data>>,
                         !.results = <<<<r.total_rows, r.new_rows_count>>>>]]
    /\ UNCHANGED <<csv_files, excel, metadata, today, ret, others>>

\* write_excel_incremental, line 577 (Flow C) or 613 (no CSV backup)
WriteCsv(t) ==
    /\ calls[t].pc = "csv"
    /\ PutCsv(calls[t].filename, DataSheet, calls[t].updated_csv_data)
    /\ calls' = [calls EXCEPT ![t].pc = "excel", ![t].events = Append(@, "csv")]
    /\ UNCHANGED <<excel, metadata, today, ret>>

\* main.py 99-104 into write_multiple_sheets_incremental, line 660: the one
\* manipulation check of the file
BeginMulti(t, dfs) ==
    /\ ~InFlight(t)
    /\ calls' = [calls EXCEPT ![t] =
                   [IdleCall EXCEPT
                      !.pc = "sheets",
                      !.filename = ExcelName,
                      !.multi = TRUE,
                      !.dataframes = dfs,
                      !.sheet_names = MultiSheets,
                      !.i = 1,
                      !.excel_was_manipulated =
                          is_excel_manipulated(excel, metadata)]]
    /\ UNCHANGED <<csv_files, excel, metadata, today, ret, others>>

\* write_multiple_sheets_incremental, lines 664-725: one turn of the loop
ProcessSheet(t) ==
    /\ calls[t].pc = "sheets"
    /\ LET c == calls[t]
           n == c.sheet_names[c.i]
           p == process_sheet(c.dataframes[c.i], CsvsOf(c.filename)[n],
                              ExcelOf(c.filename), c.excel_was_manipulated,
                              n, DayNames[today])
       IN /\ PutCsv(c.filename, n, p.csv)
          /\ calls' = [calls EXCEPT
                         ![t].pc = IF c.i = Len(c.sheet_names) THEN "excel" ELSE "sheets",
                         ![t].i = c.i + 1,
                         ![t].all_updated_dfs = Append(@, p.updated_df),
                         ![t].results = Append(@, <<p.total_rows, p.new_count>>),
                         ![t].events = IF p.wrote_csv THEN Append(@, "csv") ELSE @]
    /\ UNCHANGED <<excel, metadata, today, ret>>

\* write_excel_incremental, lines 587, 601, 616 (_write_excel_direct) and
\* write_multiple_sheets_incremental, line 728
WriteExcel(t) ==
    /\ calls[t].pc = "excel"
    /\ LET c == calls[t]
       IN PutExcel(c.filename,
                   IF c.multi
                   THEN write_excel_multiple_sheets_direct(c.all_updated_dfs,
                            c.sheet_names, EntryOf(c.filename))
                   ELSE write_excel_direct(c.all_updated_dfs[1], c.sheet_names[1],
                                           EntryOf(c.filename)))
    /\ calls' = [calls EXCEPT ![t].pc = "metadata", ![t].events = Append(@, "excel")]
    /\ UNCHANGED <<csv_files, metadata, today, ret>>

\* _update_file_metadata, lines 293-296: the checksum of the file on disk and
\* the dict read from metadata.json
LoadMetadata(t) ==
    /\ calls[t].pc = "metadata"
    /\ calls' = [calls EXCEPT
                   ![t].pc = "save",
                   ![t].checksum = calculate_file_checksum(ExcelOf(calls[t].filename)),
                   ![t].loaded = Registry]
    /\ UNCHANGED <<csv_files, excel, metadata, today, ret, others>>

\* _update_file_metadata, lines 297-302: the entry set in the dict read
\* before, and _save_metadata rewriting metadata.json from it
SaveMetadata(t) ==
    /\ calls[t].pc = "save"
    /\ LET c == calls[t]
           saved == [c.loaded EXCEPT ![c.filename] =
                       [present |-> TRUE, checksum |-> c.checksum,
                        sheet_names |-> c.sheet_names]]
       IN /\ metadata' = saved[ExcelName]
          /\ others' = [others EXCEPT !.metadata = saved[OtherName], !.corrupt = FALSE]
    /\ calls' = [calls EXCEPT ![t] = Over(calls[t], "returned", "metadata")]
    /\ UNCHANGED <<csv_files, excel, today, ret>>

\* The process is killed between two statements of the call.
Crash(t) ==
    /\ InFlight(t)
    /\ calls' = [calls EXCEPT ![t] = Over(calls[t], "dead", "")]
    /\ UNCHANGED <<csv_files, excel, metadata, today, ret, others>>

\* The process is killed inside to_csv: the header and some of the rows are
\* on disk.
CrashWritingCsv(t) ==
    /\ calls[t].pc = "csv"
    /\ \E k \in 0..(Len(calls[t].updated_csv_data.rows) - 1) :
          PutCsv(calls[t].filename, DataSheet,
                 [calls[t].updated_csv_data EXCEPT !.rows = SubSeq(@, 1, k)])
    /\ calls' = [calls EXCEPT ![t] = Over(calls[t], "dead", "csv torn")]
    /\ UNCHANGED <<excel, metadata, today, ret>>

\* The process is killed inside pd.ExcelWriter: what is on disk is no workbook.
CrashWritingExcel(t) ==
    /\ calls[t].pc = "excel"
    /\ PutExcel(calls[t].filename,
                [exists |-> TRUE, sheets |-> <<>>, by |-> "torn",
                 stamp |-> FreshStamp(EntryOf(calls[t].filename))])
    /\ calls' = [calls EXCEPT ![t] = Over(calls[t], "dead", "excel torn")]
    /\ UNCHANGED <<csv_files, metadata, today, ret>>

\* No call is running.
Quiet == \A t \in Threads : ~InFlight(t)

\* The batch of one process, which can be killed at any statement.
CrashNext ==
    \/ \E df \in SmallTables : SingleSoFar /\ BeginSingle("scheduler", ExcelName, df)
    \/ \E d1, d2 \in SmallTables : MultiSoFar /\ BeginMulti("scheduler", <<d1, d2>>)
    \/ WriteCsv("scheduler")
    \/ ProcessSheet("scheduler")
    \/ WriteExcel("scheduler")
    \/ LoadMetadata("scheduler")
    \/ SaveMetadata("scheduler")
    \/ Crash("scheduler")
    \/ CrashWritingCsv("scheduler")
    \/ CrashWritingExcel("scheduler")
    \/ (Quiet /\ UserAddColumn)

CrashSpec == Init /\ [][CrashNext]_vars

\* ------------------------------------------------------ two batch threads
\* web_server.py: scheduler_loop (894-918) calls run_batch_process in the
\* scheduler thread and run_now (947-960) starts a thread that calls it too;
\* run_batch_process (823-866) takes no lock and checks no flag before it
\* runs main, so either thread enters the call for any source at any time.
\* Both sources deliver the one-row table.
ConcTables == {t \in SmallTables : Len(t.rows) = 1}

ConcNext ==
    \/ \E t \in Threads, f \in Files, df \in ConcTables : BeginSingle(t, f, df)
    \/ \E t \in Threads : WriteCsv(t)
    \/ \E t \in Threads : WriteExcel(t)
    \/ \E t \in Threads : LoadMetadata(t)
    \/ \E t \in Threads : SaveMetadata(t)

ConcSpec == Init /\ [][ConcNext]_vars

\* ------------------------------------------------------ the backup utility
\* backup_utility.backup_file: every sheet of the Excel file, as read_excel
\* (dtype=str, fillna('')) gives it, becomes the CSV backup of that sheet, and
\* the checksum of the file as it is goes to metadata.json
backup_file(xl, csvs) ==
    LET sheet_names == [i \in 1..Len(xl.sheets) |-> xl.sheets[i].name]
    IN [csv |-> [n \in DOMAIN csvs |->
                    IF HasSheet(xl, n)
                    THEN create_csv_backup(read_excel_sheet(xl, n))
                    ELSE csvs[n]],
        metadata |-> update_file_metadata(xl, sheet_names)]

\* python backup_utility.py backup --file acme.xlsx
BackupFile ==
    /\ excel.exists
    /\ LET b == backup_file(excel, csv_files)
       IN /\ csv_files' = b.csv
          /\ metadata' = b.metadata
    /\ ret' = [NoRet EXCEPT !.op = "backup"]
    /\ UNCHANGED <<excel, today, calls, others>>

\* python backup_utility.py restore --file acme.xlsx (without --force): a
\* file that verifies is left alone, any other is force-restored
RestoreFile ==
    /\ ~verify_file_integrity(excel, metadata)
    /\ ForceRestore

\* A person copies the first row of the data sheet below the last one.
UserDuplicateRow ==
    /\ Editable
    /\ LET t == SheetOf(excel, DataSheet)
       IN /\ Len(t.rows) > 0 /\ Len(t.cols) >= 1
          /\ \A i, j \in 1..Len(t.rows) :
                i # j => t.rows[i][t.cols[1]] # t.rows[j][t.cols[1]]
          /\ UserSave([cols |-> t.cols, rows |-> Append(t.rows, t.rows[1])])

\* The engine, the backup utility and a person at the Excel file, in any
\* order, within one day.
ToolNext ==
    \/ Reconcile
    \/ ForceRestore
    \/ RestoreFile
    \/ BackupFile
    \/ UserAddColumn
    \/ UserAddRow
    \/ UserDuplicateRow

ToolSpec == Init /\ [][ToolNext]_vars

\* ------------------------------------------------- a batch with failures
\* The sources of config.json in the order main goes through them.
Sources == <<ExcelName, OtherName>>

\* The batch of main: the source it is at and how the earlier ones ended.
BatchAt(i, outcomes) == [op |-> "batch", i |-> i, outcomes |-> outcomes]

BatchRunning == ret.op = "batch" /\ ret.i <= Len(Sources)

\* main.py 59-134: the for loop; the except clause at 132-134 logs the
\* failure of a source and continues with the next one.
after_source(i, outcome) == i + 1

\* run_batch_process calls main (web_server.py 832, main.py 38-58).
StartBatch ==
    /\ ~BatchRunning
    /\ calls["scheduler"].pc = "idle"
    /\ ret' = BatchAt(1, <<>>)
    /\ UNCHANGED <<csv_files, excel, metadata, today, calls, others>>

\* main.py 67-71: get_page_tables raises (the page cannot be fetched) or
\* returns no table
FetchFails ==
    /\ BatchRunning
    /\ calls["scheduler"].pc = "idle"
    /\ ret' = BatchAt(after_source(ret.i, "no tables"), Append(ret.outcomes, "no tables"))
    /\ UNCHANGED <<csv_files, excel, metadata, today, calls, others>>

\* main.py 79-85: the reconcile of the source the batch is at
BatchReconcile ==
    /\ BatchRunning
    /\ calls["scheduler"].pc = "idle"
    /\ \E df \in ConcTables : BeginSingle("scheduler", Sources[ret.i], df)

\* _create_csv_backup (210-221): to_csv raises (disk full, file locked); the
\* file is untouched, or left with its header and some of the rows; the
\* exception goes up to main.
FailWritingCsv(t) ==
    /\ calls[t].pc = "csv"
    /\ \/ PutCsv(calls[t].filename, DataSheet, CsvsOf(calls[t].filename)[DataSheet])
       \/ \E k \in 0..(Len(calls[t].updated_csv_data.rows) - 1) :
             PutCsv(calls[t].filename, DataSheet,
                    [calls[t].updated_csv_data EXCEPT !.rows = SubSeq(@, 1, k)])
    /\ calls' = [calls EXCEPT ![t] = Over(calls[t], "raised", "csv failed")]
    /\ UNCHANGED <<excel, metadata, today, ret>>

\* _write_excel_direct (385-400): pd.ExcelWriter raises (file open in Excel,
\* disk full); the file is untouched, or what is left of it is no workbook;
\* the exception goes up to main.
FailWritingExcel(t) ==
    /\ calls[t].pc = "excel"
    /\ \/ PutExcel(calls[t].filename, ExcelOf(calls[t].filename))
       \/ PutExcel(calls[t].filename,
                   [exists |-> TRUE, sheets |-> <<>>, by |-> "torn",
                    stamp |-> FreshStamp(EntryOf(calls[t].filename))])
    /\ calls' = [calls EXCEPT ![t] = Over(calls[t], "raised", "excel failed")]
    /\ UNCHANGED <<csv_files, metadata, today, ret>>

\* _save_metadata (59-65): open(..., 'w') or json.dump raises; the except
\* clause logs it and the call goes on as after a save.  metadata.json is
\* untouched when open failed, truncated when json.dump failed.
FailSavingMetadata(t) ==
    /\ calls[t].pc = "save"
    /\ \E truncated \in BOOLEAN :
          others' = [others EXCEPT !.corrupt = (@ \/ truncated)]
    /\ calls' = [calls EXCEPT ![t] = Over(calls[t], "returned", "metadata failed")]
    /\ UNCHANGED <<csv_files, excel, metadata, today, ret>>

\* main.py 59, 132-134: the call is over, by return or by exception; on to
\* the next source
NextSource ==
    /\ BatchRunning
    /\ calls["scheduler"].pc \in {"returned", "raised"}
    /\ ret' = BatchAt(after_source(ret.i, calls["scheduler"].pc),
                      Append(ret.outcomes, calls["scheduler"].pc))
    /\ calls' = [calls EXCEPT !["scheduler"] = IdleCall]
    /\ UNCHANGED <<csv_files, excel, metadata, today, others>>

FailNext ==
    \/ StartBatch
    \/ FetchFails
    \/ BatchReconcile
    \/ WriteCsv("scheduler")
    \/ WriteExcel("scheduler")
    \/ LoadMetadata("scheduler")
    \/ SaveMetadata("scheduler")
    \/ FailWritingCsv("scheduler")
    \/ FailWritingExcel("scheduler")
    \/ FailSavingMetadata("scheduler")
    \/ NextSource

FailSpec == Init /\ [][FailNext]_vars

\* ------------------------------------------------ change detection alone
\* Frames _detect_data_changes is called with: the page's table (its columns
\* can change from one fetch to the next) and the frame of the CSV backup.
\* Rows have pairwise distinct keys, in any order.
DetectCols == {<<"id", "name">>, <<"id", "name", "city">>, <<"id", "label">>}

DetectRows ==
    {s \in UNION {[1..n -> FetchKeys \X {"Alice", "Bob"}] : n \in 1..Cardinality(FetchKeys)} :
        \A i, j \in 1..Len(s) : i # j => s[i][1] # s[j][1]}

DetectFrame(cols, rs, day) ==
    [cols |-> IF day = "" THEN cols ELSE Append(cols, "created_date"),
     rows |-> [i \in 1..Len(rs) |->
                 [x \in {cols[k] : k \in 1..Len(cols)}
                        \cup (IF day = "" THEN {} ELSE {"created_date"}) |->
                    IF x = "id" THEN rs[i][1]
                    ELSE IF x = "created_date" THEN day
                    ELSE rs[i][2]]]]

DetectInit ==
    /\ csv_files = [s \in SheetNames |-> NoCsv]
    /\ excel = NoExcel
    /\ metadata = NoEntry
    /\ today = 1
    /\ calls = [t \in Threads |-> IdleCall]
    /\ others = NoOther
    /\ \E c1, c2 \in DetectCols, r1, r2 \in DetectRows :
          ret = [op |-> "input",
                 new_data |-> DetectFrame(c1, r1, ""),
                 csv_backup |-> DetectFrame(c2, r2, DayNames[1]),
                 changed |-> FALSE]

\* write_excel_incremental, lines 542-546: unique_col is the first column of
\* the fetched table
DetectDataChanges ==
    /\ ret.op = "input"
    /\ ret' = [ret EXCEPT
                 !.op = "detect",
                 !.changed = detect_data_changes(ret.new_data, ret.csv_backup,
                                 get_unique_column_name(ret.new_data))]
    /\ UNCHANGED <<csv_files, excel, metadata, today, calls, others>>

DetectNext == DetectDataChanges

DetectSpec == DetectInit /\ [][DetectNext]_vars

\* ------------------------------------------------------ the batch of main
\* Python's tuple unpacking: as many names as the tuple has values, else
\* ValueError.
unpacks(values, names) == Len(values) = names

\* main.py 79-96: one table.  write_excel_incremental returns
\* (filepath, total_rows, new_rows_count) (data_handler.py 625); line 81 binds
\* it to four names.  The except clause at 132-134 logs the error and goes on
\* to the next source; by then the call has written its files.
bind_single(r, returned) ==
    [csv |-> r.csv, excel |-> r.excel, metadata |-> r.metadata,
     error |-> IF unpacks(returned, 4) THEN "" ELSE "ValueError",
     received |-> IF unpacks(returned, 4)
                  THEN <<[total_rows |-> returned[2], new_rows |-> returned[3],
                          new_rows_df |-> returned[4]]>>
                  ELSE <<>>,
     all_changes |-> IF unpacks(returned, 4) /\ returned[3] > 0
                     THEN <<[total_rows |-> returned[2], new_rows |-> returned[3],
                             new_rows_df |-> returned[4]]>>
                     ELSE <<>>]

returned_single(r) == <<"filepath", r.total_rows, r.new_rows_count>>

bound_single(r) == bind_single(r, returned_single(r))

main_single(df, csv_file, xl, md, day) ==
    bound_single(write_excel_incremental(df, csv_file, xl, md, DataSheet, day))

\* main.py 97-130: several tables.  write_multiple_sheets_incremental returns
\* (filepath, results) with results a list of (len(updated_df), new_count)
\* (data_handler.py 725, 734); line 111 binds each element to three names.
bind_multi(r, ok) ==
    [csv |-> r.csv, excel |-> r.excel, metadata |-> r.metadata,
     error |-> IF ok THEN "" ELSE "ValueError",
     received |-> IF ok
                  THEN [k \in 1..Len(r.results) |->
                          [total_rows |-> r.results[k][1], new_rows |-> r.results[k][2],
                           new_rows_df |-> r.results[k][3]]]
                  ELSE <<>>,
     all_changes |-> IF ok /\ \E k \in 1..Len(r.results) : r.results[k][2] > 0
                     THEN [k \in 1..Len(r.results) |->
                             [total_rows |-> r.results[k][1], new_rows |-> r.results[k][2],
                              new_rows_df |-> r.results[k][3]]]
                     ELSE <<>>]

bound_multi(r) ==
    bind_multi(r, /\ unpacks(<<"filepath", r.results>>, 2)
                  /\ \A k \in 1..Len(r.results) : unpacks(r.results[k], 3))

main_multi(dfs, csvs, xl, md, day) ==
    bound_multi(write_multiple_sheets_incremental(dfs, csvs, xl, md, MultiSheets, day))

MainRet(sheet_names, dfs, m) ==
    [op |-> "main", sheet_names |-> sheet_names, fetched |-> dfs,
     error |-> m.error, received |-> m.received, all_changes |-> m.all_changes]

MainSingle(df) ==
    LET m == main_single(df, csv_files[DataSheet], excel, metadata, DayNames[today])
    IN /\ csv_files' = [csv_files EXCEPT ![DataSheet] = m.csv]
       /\ excel' = m.excel
       /\ metadata' = m.metadata
       /\ ret' = MainRet(<<DataSheet>>, <<df>>, m)
       /\ UNCHANGED <<today, calls, others>>

MainMulti(dfs) ==
    LET m == main_multi(dfs, csv_files, excel, metadata, DayNames[today])
    IN /\ csv_files' = m.csv
       /\ excel' = m.excel
       /\ metadata' = m.metadata
       /\ ret' = MainRet(MultiSheets, dfs, m)
       /\ UNCHANGED <<today, calls, others>>

\* Batch after batch for one source whose page has one table, or two; a
\* person may edit the file between two batches.
BatchNext ==
    \/ \E df \in FetchedTables : SingleSoFar /\ MainSingle(df)
    \/ \E d1, d2 \in SmallTables : MultiSoFar /\ MainMulti(<<d1, d2>>)
    \/ UserAddColumn

BatchSpec == Init /\ [][BatchNext]_vars

\* ------------------------------------------------- the multi-sheet call
\* Tables of a page with two tables: no row, one or two, keys distinct.
MultiTables ==
    {t \in FetchedTables : \A i \in 1..Len(t.rows) : t.rows[i].name \in {"Alice", "Bob", "Bobby"}}

\* A person adds the column Notes to the first sheet of the workbook of a
\* multi-sheet source and saves it; the other sheets stay as they are.
UserAddColumnToSheet ==
    /\ excel.exists /\ excel.by = "engine" /\ Len(excel.sheets) > 0
    /\ LET t == excel.sheets[1]
       IN /\ ~HasCol(t, "Notes")
          /\ excel' = [exists |-> TRUE,
                       sheets |-> [excel.sheets EXCEPT ![1] =
                                     [name |-> t.name,
                                      cols |-> Append(t.cols, "Notes"),
                                      rows |-> [i \in 1..Len(t.rows) |->
                                                  [x \in ColSet(t) \cup {"Notes"} |->
                                                     IF x = "Notes" THEN "VIP"
                                                     ELSE t.rows[i][x]]]]],
                       by |-> "user", stamp |-> FreshStamp(metadata)]
    /\ UNCHANGED <<csv_files, metadata, today, ret, calls, others>>

\* Batch after batch for a source whose page has two tables, the call
\* followed sheet by sheet.
MultiNext ==
    \/ \E d1, d2 \in MultiTables : BeginMulti("scheduler", <<d1, d2>>)
    \/ ProcessSheet("scheduler")
    \/ WriteExcel("scheduler")
    \/ LoadMetadata("scheduler")
    \/ SaveMetadata("scheduler")
    \/ (Quiet /\ UserAddColumnToSheet)

MultiSpec == Init /\ [][MultiNext]_vars

\* --------------------------------------------- the Snapshot Store alone
\* Text a cell of a fetched table can hold (read_html with
\* keep_default_na=False delivers every cell as the page has it).
CellTexts == {"001", "Alice", "NA", "7.0", ""}

\* Frames handed to _create_csv_backup: columns id and name, one or two rows.
StoreFrames ==
    {[cols |-> <<"id", "name">>, rows |-> rs] :
        rs \in UNION {[1..n -> [id : CellTexts \ {""}, name : CellTexts]] : n \in 1..2}}

StoreInit ==
    /\ csv_files = [s \in SheetNames |-> NoCsv]
    /\ excel = NoExcel
    /\ metadata = NoEntry
    /\ today = 1
    /\ calls = [t \in Threads |-> IdleCall]
    /\ others = NoOther
    /\ \E df \in StoreFrames :
          ret = [op |-> "input", written |-> df, read |-> NoCsv]

\* _create_csv_backup(df, filename, "data"), then _load_csv_backup(filename,
\* "data")
WriteThenLoad ==
    /\ ret.op = "input"
    /\ csv_files' = [csv_files EXCEPT ![DataSheet] = create_csv_backup(ret.written)]
    /\ ret' = [ret EXCEPT !.op = "loaded",
                          !.read = load_csv_backup(create_csv_backup(ret.written))]
    /\ UNCHANGED <<excel, metadata, today, calls, others>>

StoreNext == WriteThenLoad

StoreSpec == StoreInit /\ [][StoreNext]_vars

\* ------------------------------------------------- the names of files
\* A name is the sequence of its characters; the extensions ".xlsx" and
\* ".csv" and the sheet names the program uses are single elements.
NameChars == {"x", "_", " ", "/"}

MaxNameLen == 2

SourceNames == UNION {[1..n -> NameChars] : n \in 1..MaxNameLen}

\* re.sub(r'[^\w\-_.]', '_', base_name), one character
clean_char(c) == IF c \in {"x", "_", "-", "."} THEN c ELSE "_"

generate_filename(base_name) ==
    [i \in 1..Len(base_name) |-> clean_char(base_name[i])] \o <<".xlsx">>

\* os.path.splitext(excel_filename)[0]
splitext(excel_filename) ==
    IF Len(excel_filename) > 1 /\ excel_filename[Len(excel_filename)] = ".xlsx"
    THEN SubSeq(excel_filename, 1, Len(excel_filename) - 1)
    ELSE excel_filename

get_csv_backup_path(excel_filename, sheet_name) ==
    splitext(excel_filename) \o <<"_", sheet_name, ".csv">>

\* The sheets main names: "data" for one table, Table_j for several.
MainSheets == {DataSheet, MultiSheets[1], MultiSheets[2]}

PathInit ==
    /\ csv_files = [s \in SheetNames |-> NoCsv]
    /\ excel = NoExcel
    /\ metadata = NoEntry
    /\ today = 1
    /\ calls = [t \in Threads |-> IdleCall]
    /\ others = NoOther
    /\ \E a \in SourceNames, b \in SourceNames, sa \in MainSheets, sb \in MainSheets :
          ret = [op |-> "sources",
                 a |-> [name |-> a, sheet |-> sa, excel |-> <<>>, csv |-> <<>>],
                 b |-> [name |-> b, sheet |-> sb, excel |-> <<>>, csv |-> <<>>]]

\* main names the files of two sources of one batch.
NameFiles ==
    /\ ret.op = "sources"
    /\ LET named(s) == [s EXCEPT !.excel = generate_filename(s.name),
                                 !.csv = get_csv_backup_path(generate_filename(s.name), s.sheet)]
       IN  ret' = [op |-> "files", a |-> named(ret.a), b |-> named(ret.b)]
    /\ UNCHANGED <<csv_files, excel, metadata, today, calls, others>>

PathNext == NameFiles

PathSpec == PathInit /\ [][PathNext]_vars

\* ------------------------------------------- the same rows, call after call
\* Calls in a row with the same fetched rows, on one day or over several, are
\* counted up to MaxStreak.
MaxStreak == 3

streak_after(df) ==
    IF ret.op # "none" /\ ret.fetched = df
    THEN IF ret.streak < MaxStreak THEN ret.streak + 1 ELSE MaxStreak
    ELSE 1

\* write_excel_incremental(df, filename, "data"), batch after batch
ReconcileAgain ==
    \E df \in FetchedTables :
        LET r == write_excel_incremental(df, csv_files[DataSheet], excel, metadata,
                                         DataSheet, DayNames[today])
        IN /\ csv_files' = [csv_files EXCEPT ![DataSheet] = r.csv]
           /\ excel' = r.excel
           /\ metadata' = r.metadata
           /\ ret' = [op |-> "reconcile", fetched |-> df, flow |-> r.flow,
                      new_rows_count |-> r.new_rows_count,
                      streak |-> streak_after(df)]
           /\ UNCHANGED <<today, calls, others>>

ConvergeNext == ReconcileAgain \/ AdvanceDay

ConvergeSpec == Init /\ [][ConvergeNext]_vars

\* ------------------------------------------------- new rows, call by call
\* A count of the ledger stops at MaxCount.
MaxCount == 2

UpTo(n) == IF n < MaxCount THEN n + 1 ELSE MaxCount

NoLedger == [k \in FetchKeys |-> 0]

\* What has been recorded so far: per key, how often it came into the CSV
\* backup and how often a call that returned reported it in new_rows.
Ledger ==
    IF ret.op \in {"ledger", "fetched"}
    THEN [entered |-> ret.entered, counted |-> ret.counted]
    ELSE [entered |-> NoLedger, counted |-> NoLedger]

\* The keys in the first column of a CSV file.
FileKeys(file) == {file.rows[i].id : i \in 1..Len(file.rows)}

\* main.py 67: the page of the source is fetched; the CSV backup is as the
\* call that follows will find it
Fetch ==
    /\ ret.op \in {"none", "ledger"}
    /\ calls["scheduler"].pc = "idle"
    /\ \A k \in FetchKeys : Ledger.entered[k] < MaxCount
    /\ \E df \in SmallTables :
          ret' = [op |-> "fetched", fetched |-> df, before |-> csv_files[DataSheet],
                  entered |-> Ledger.entered, counted |-> Ledger.counted]
    /\ UNCHANGED <<csv_files, excel, metadata, today, calls, others>>

\* main.py 81-85: the reconcile with the table fetched
FetchedReconcile ==
    /\ ret.op = "fetched"
    /\ calls["scheduler"].pc = "idle"
    /\ BeginSingle("scheduler", ExcelName, ret.fetched)

\* The keys of new_rows (line 563, or all rows at 608-611) of a call with the
\* table df that found the CSV backup `before`.
new_rows_keys(df, before) ==
    LET existing == load_csv_backup(before)
    IN IF ~existing.exists \/ IsEmpty(existing)
       THEN FileKeys(df)
       ELSE FileKeys(find_new_rows(df, existing, "id"))

\* The call is over.  A call that returned gave new_rows to its caller
\* (main.py 81); one that raised gave nothing (main.py 132-134).
CallOver ==
    /\ ret.op = "fetched"
    /\ calls["scheduler"].pc \in {"returned", "raised"}
    /\ LET came == FileKeys(csv_files[DataSheet]) \ FileKeys(ret.before)
           told == IF calls["scheduler"].pc = "returned"
                   THEN new_rows_keys(ret.fetched, ret.before)
                   ELSE {}
       IN ret' = [op |-> "ledger", last |-> calls["scheduler"].pc,
                  entered |-> [k \in FetchKeys |->
                                 IF k \in came THEN UpTo(ret.entered[k]) ELSE ret.entered[k]],
                  counted |-> [k \in FetchKeys |->
                                 IF k \in told THEN UpTo(ret.counted[k]) ELSE ret.counted[k]]]
    /\ calls' = [calls EXCEPT !["scheduler"] = IdleCall]
    /\ UNCHANGED <<csv_files, excel, metadata, today, others>>

CountNext ==
    \/ Fetch
    \/ FetchedReconcile
    \/ WriteCsv("scheduler")
    \/ WriteExcel("scheduler")
    \/ LoadMetadata("scheduler")
    \/ SaveMetadata("scheduler")
    \/ FailWritingCsv("scheduler")
    \/ FailWritingExcel("scheduler")
    \/ CallOver

CountSpec == Init /\ [][CountNext]_vars

\* ------------------------------------------- restores with sheets named
\* Sheet lists a caller passes to force_restore_from_backup: the sheet main
\* writes, and the default "Data" of the backup utility (backup_utility.py 104).
RequestedSheets == {<<DataSheet>>, <<"Data">>}

\* force_restore_from_backup(filename, sheet_names)
ForceRestoreSheets ==
    \E sheet_names \in RequestedSheets :
        LET restored == restore_from_csv_backup(excel, csv_files, sheet_names, metadata)
        IN /\ excel' = restored
           /\ metadata' = update_file_metadata(restored, sheet_names)
           /\ ret' = [NoRet EXCEPT !.op = "force_restore",
                                   !.restored = (restored # excel)]
                        @@ [sheet_names |-> sheet_names]
           /\ UNCHANGED <<csv_files, today, calls, others>>

RestoreNext ==
    \/ Reconcile
    \/ ForceRestoreSheets
    \/ ReadExcel
    \/ UserAddColumn
    \/ UserEditCell

RestoreSpec == Init /\ [][RestoreNext]_vars

\* ------------------------------------------- what the notifier is handed
RECURSIVE sum_new_rows(_)
\* main.py 140: sum(c['new_rows'] for c in all_changes)
sum_new_rows(all_changes) ==
    IF Len(all_changes) = 0 THEN 0
    ELSE all_changes[1].new_rows + sum_new_rows(Tail(all_changes))

RECURSIVE sum_total_rows(_)
\* main.py 114: total_all_rows over the sheets of the source
sum_total_rows(all_changes) ==
    IF Len(all_changes) = 0 THEN 0
    ELSE all_changes[1].total_rows + sum_total_rows(Tail(all_changes))

\* main.py 147-166: the entry of the source in all_sources_status, from its
\* entry in all_changes, or zeros when it has none
source_status(all_changes) ==
    IF Len(all_changes) > 0
    THEN [total_rows |-> sum_total_rows(all_changes),
          new_rows |-> sum_new_rows(all_changes)]
    ELSE [total_rows |-> 0, new_rows |-> 0]

\* ------------------------------------------ a multi-sheet call that fails
\* A table read without any column.
NoColumns == [cols |-> <<>>, rows |-> <<>>]

\* main.py 99-104: two tables fetched, the second possibly without columns
BeginMultiAny ==
    \E d1 \in SmallTables, d2 \in SmallTables \cup {NoColumns} :
        MultiSoFar /\ BeginMulti("scheduler", <<d1, d2>>)

\* One turn of the loop for a table that has a column.
ProcessSheetWithColumns(t) ==
    /\ calls[t].pc = "sheets"
    /\ Len(calls[t].dataframes[calls[t].i].cols) >= 1
    /\ ProcessSheet(t)

\* _get_unique_column_name (441-445) raises ValueError for a table without a
\* column; the except clause at 736-738 logs it and raises it again.
SheetRaises(t) ==
    /\ calls[t].pc = "sheets"
    /\ Len(calls[t].dataframes[calls[t].i].cols) < 1
    /\ calls' = [calls EXCEPT ![t] = Over(calls[t], "raised", "ValueError")]
    /\ UNCHANGED <<csv_files, excel, metadata, today, ret, others>>

MultiFailNext ==
    \/ BeginMultiAny
    \/ ProcessSheetWithColumns("scheduler")
    \/ SheetRaises("scheduler")
    \/ WriteExcel("scheduler")
    \/ FailWritingExcel("scheduler")
    \/ LoadMetadata("scheduler")
    \/ SaveMetadata("scheduler")

MultiFailSpec == Init /\ [][MultiFailNext]_vars

\* ------------------------------------------------- the web server process
\* Scheduler loop threads and on-demand threads the process can have had.
MaxLoops == 2

MaxRuns == 2

LoopIds == 1..MaxLoops

RunIds == 1..MaxRuns

\* The globals of web_server.py after import with the scheduler stopped
\* (scheduler_state, batch_state) and the threads of the process: loops by
\* thread, "none" before Thread.start(), "exited" after the loop returned;
\* toggle is the position of the handler of /api/scheduler/toggle.
ServerStart ==
    [op |-> "server",
     is_running |-> FALSE, stop_event |-> FALSE, scheduler_thread |-> 0,
     loops |-> [i \in LoopIds |-> "none"],
     runs |-> [j \in RunIds |-> "none"],
     toggle |-> "idle",
     batch_is_running |-> FALSE, last_result |-> "None",
     finished_last |-> "None", event |-> ""]

ServerInit ==
    /\ csv_files = [s \in SheetNames |-> NoCsv]
    /\ excel = NoExcel
    /\ metadata = NoEntry
    /\ today = 1
    /\ calls = [t \in Threads |-> IdleCall]
    /\ others = NoOther
    /\ ret = ServerStart

ServerStep(r) ==
    /\ ret.op = "server"
    /\ ret' = r
    /\ UNCHANGED <<csv_files, excel, metadata, today, calls, others>>

\* run_batch_process, lines 827-831: the flag is set and the last result reset
run_batch_start(r) ==
    [r EXCEPT !.batch_is_running = TRUE, !.last_result = "None"]

\* run_batch_process, lines 833-866: main has returned ("success") or raised
\* ("error"); the result is stored and the finally clause clears the flag
run_batch_finish(r, outcome) ==
    [r EXCEPT !.last_result = outcome, !.finished_last = outcome,
              !.batch_is_running = FALSE]

\* toggle_scheduler, lines 988-997 (scheduler stopped), and start_server
\* 1127-1133: a new loop thread is started
ToggleStart ==
    /\ ret.op = "server" /\ ret.toggle = "idle" /\ ~ret.is_running
    /\ \E i \in LoopIds :
          /\ ret.loops[i] = "none"
          /\ \A k \in LoopIds : k < i => ret.loops[k] # "none"
          /\ ServerStep([ret EXCEPT !.is_running = TRUE, !.stop_event = FALSE,
                                    !.scheduler_thread = i, !.loops[i] = "top",
                                    !.event = "toggle start"])

\* toggle_scheduler, lines 970-974: stop_event.set(), then join(timeout=5)
ToggleStop ==
    /\ ret.op = "server" /\ ret.toggle = "idle" /\ ret.is_running
    /\ ServerStep([ret EXCEPT !.stop_event = TRUE, !.toggle = "joining",
                              !.event = "toggle stop"])

\* toggle_scheduler, lines 974-977: join returns, because the loop thread has
\* exited or because five seconds have passed while it runs a batch; then
\* is_running = False and stop_event.clear()
ToggleJoined ==
    /\ ret.op = "server" /\ ret.toggle = "joining"
    /\ \/ ret.scheduler_thread = 0
       \/ ret.loops[ret.scheduler_thread] \in {"exited", "batch"}
    /\ ServerStep([ret EXCEPT !.is_running = FALSE, !.stop_event = FALSE,
                              !.toggle = "idle", !.event = "stopped"])

\* scheduler_loop, lines 896-912: the while test, then stop_event.wait
LoopTop(i) ==
    /\ ret.op = "server" /\ ret.loops[i] = "top"
    /\ ServerStep([ret EXCEPT !.loops[i] = IF ret.stop_event THEN "exited" ELSE "waiting",
                              !.event = "loop"])

\* scheduler_loop, lines 912-913: wait returns True, break
WaitStopped(i) ==
    /\ ret.op = "server" /\ ret.loops[i] = "waiting" /\ ret.stop_event
    /\ ServerStep([ret EXCEPT !.loops[i] = "exited", !.event = "loop"])

\* scheduler_loop, lines 912-918: the time has come; run_batch_process is
\* called
WaitTimedOut(i) ==
    /\ ret.op = "server" /\ ret.loops[i] = "waiting" /\ ~ret.stop_event
    /\ ServerStep(run_batch_start([ret EXCEPT !.loops[i] = "batch",
                                              !.event = "scheduled batch"]))

\* run_batch_process returns in the loop thread.
LoopBatchDone(i) ==
    /\ ret.op = "server" /\ ret.loops[i] = "batch"
    /\ \E outcome \in {"success", "error"} :
          ServerStep(run_batch_finish([ret EXCEPT !.loops[i] = "top",
                                                  !.event = "batch done"], outcome))

\* run_now, lines 947-960: a thread that calls run_batch_process
RunNow(j) ==
    /\ ret.op = "server" /\ ret.runs[j] = "none"
    /\ ServerStep(run_batch_start([ret EXCEPT !.runs[j] = "batch",
                                              !.event = "run now"]))

\* run_batch_process returns in the thread of run_now, which ends.
RunDone(j) ==
    /\ ret.op = "server" /\ ret.runs[j] = "batch"
    /\ \E outcome \in {"success", "error"} :
          ServerStep(run_batch_finish([ret EXCEPT !.runs[j] = "none",
                                                  !.event = "batch done"], outcome))

ServerNext ==
    \/ ToggleStart
    \/ ToggleStop
    \/ ToggleJoined
    \/ \E i \in LoopIds : LoopTop(i)
    \/ \E i \in LoopIds : WaitStopped(i)
    \/ \E i \in LoopIds : WaitTimedOut(i)
    \/ \E i \in LoopIds : LoopBatchDone(i)
    \/ \E j \in RunIds : RunNow(j)
    \/ \E j \in RunIds : RunDone(j)

ServerSpec == ServerInit /\ [][ServerNext]_vars

\* ------------------------------------------------------ the schedule in time
\* Scheduled runs followed per start of the scheduler.
MaxScheduled == 3

\* The intervals the page offers (getIntervalDays, lines 557-563).
Intervals == {1, 7, 14, 28}

SelectedDays == 0..6

\* Time in whole days; day 0 is a Monday, so datetime.weekday() of day d is
\* d % 7 (0 = Monday, 6 = Sunday).
weekday(d) == d % 7

RECURSIVE next_weekday_from(_, _)
\* the while loop of get_next_midnight_on_day, lines 888-889
next_weekday_from(next_candidate, target_weekday) ==
    IF weekday(next_candidate) # target_weekday
    THEN next_weekday_from(next_candidate + 1, target_weekday)
    ELSE next_candidate

\* get_next_midnight_on_day, lines 869-891, with now on day `now`
get_next_midnight_on_day(now, selected_day) ==
    LET target_weekday == IF selected_day > 0 THEN (selected_day - 1) % 7 ELSE 6
    IN next_weekday_from(now + 1, target_weekday)

\* scheduler_loop, lines 898-904
next_run_day(now, selected_day, interval_days) ==
    LET next_run == get_next_midnight_on_day(now, selected_day)
    IN IF interval_days > 7
       THEN next_run + 7 * ((interval_days \div 7) - 1)
       ELSE next_run

\* The scheduler has been started on day `now` (toggle_scheduler 988-997)
\* with one of the offered settings; started holds the days on which scheduled
\* batches started, in order.
ScheduleInit ==
    /\ csv_files = [s \in SheetNames |-> NoCsv]
    /\ excel = NoExcel
    /\ metadata = NoEntry
    /\ today = 1
    /\ calls = [t \in Threads |-> IdleCall]
    /\ others = NoOther
    /\ \E interval_days \in Intervals, selected_day \in SelectedDays, now \in 0..6 :
          ret = [op |-> "schedule", interval_days |-> interval_days,
                 selected_day |-> selected_day, now |-> now, next_run |-> -1,
                 started |-> <<>>]

\* scheduler_loop, lines 896-912: next_run is computed and the thread waits
ComputeNextRun ==
    /\ ret.op = "schedule" /\ ret.next_run = -1
    /\ Len(ret.started) < MaxScheduled
    /\ ret' = [ret EXCEPT !.next_run = next_run_day(ret.now, ret.selected_day, ret.interval_days)]
    /\ UNCHANGED <<csv_files, excel, metadata, today, calls, others>>

\* scheduler_loop, lines 912-918: the wait ends at 00:00 of next_run, the batch
\* starts and returns the same day
RunScheduled ==
    /\ ret.op = "schedule" /\ ret.next_run # -1
    /\ ret' = [ret EXCEPT !.now = ret.next_run, !.next_run = -1,
                          !.started = Append(ret.started, ret.next_run)]
    /\ UNCHANGED <<csv_files, excel, metadata, today, calls, others>>

ScheduleNext == ComputeNextRun \/ RunScheduled

ScheduleSpec == ScheduleInit /\ [][ScheduleNext]_vars

\* ------------------------------------------- the persisted scheduler state
\* dict.get(key, default)
Get(d, key, default) == IF key \in DOMAIN d THEN d[key] ELSE default

\* config.json without a 'scheduler_state' entry
NoConfig == [fetch_urls |-> <<>>]

\* get_scheduler_state, utils.py lines 67-90
get_scheduler_state(config) ==
    Get(config, "scheduler_state",
        [is_running |-> FALSE, interval_hours |-> 672, selected_day |-> 1])

\* save_scheduler_state, utils.py lines 93-113: the config with the entry
\* 'scheduler_state' rewritten from the keys it reads in state
save_scheduler_state(config, state) ==
    [k \in DOMAIN config \cup {"scheduler_state"} |->
        IF k = "scheduler_state"
        THEN [is_running |-> Get(state, "is_running", FALSE),
              interval_hours |-> Get(state, "interval_hours", 672),
              selected_day |-> Get(state, "selected_day", 1)]
        ELSE config[k]]

\* web_server.py lines 15-28: scheduler_state of a process that finds config
load_scheduler_state(config) ==
    LET persisted_state == get_scheduler_state(config)
    IN [is_running |-> FALSE,
        interval_days |-> Get(persisted_state, "interval_days", 28),
        selected_day |-> Get(persisted_state, "selected_day", 1),
        _was_running |-> Get(persisted_state, "is_running", FALSE)]

\* start_server, lines 1127-1133: the scheduler is started again if it was
\* running
start_server(state) ==
    IF Get(state, "_was_running", FALSE)
    THEN [state EXCEPT !.is_running = TRUE]
    ELSE state

\* A server process on a machine with no saved scheduler state; saved is the
\* scheduler_state handed to the last save_scheduler_state, has_saved whether
\* there was one.
PersistInit ==
    /\ csv_files = [s \in SheetNames |-> NoCsv]
    /\ excel = NoExcel
    /\ metadata = NoEntry
    /\ today = 1
    /\ calls = [t \in Threads |-> IdleCall]
    /\ others = NoOther
    /\ ret = [op |-> "persist", config |-> NoConfig,
              scheduler_state |-> start_server(load_scheduler_state(NoConfig)),
              saved |-> start_server(load_scheduler_state(NoConfig)),
              has_saved |-> FALSE, event |-> "start"]

\* The state is assigned and save_scheduler_state(scheduler_state) is called.
assign_and_save(r, state, event) ==
    [r EXCEPT !.scheduler_state = state,
              !.config = save_scheduler_state(r.config, state),
              !.saved = state, !.has_saved = TRUE, !.event = event]

\* set_interval, lines 1021-1035
SetInterval ==
    /\ ret.op = "persist"
    /\ \E interval \in Intervals, selected_day \in SelectedDays :
          ret' = assign_and_save(ret,
                     [ret.scheduler_state EXCEPT !.interval_days = interval,
                                                 !.selected_day = selected_day],
                     "set_interval")
    /\ UNCHANGED <<csv_files, excel, metadata, today, calls, others>>

\* toggle_scheduler, lines 970-980 (stop) and 988-1000 (start)
ToggleAndSave ==
    /\ ret.op = "persist"
    /\ \E interval \in Intervals, selected_day \in SelectedDays :
          ret' = assign_and_save(ret,
                     IF ret.scheduler_state.is_running
                     THEN [ret.scheduler_state EXCEPT !.is_running = FALSE]
                     ELSE [ret.scheduler_state EXCEPT !.interval_days = interval,
                                                      !.selected_day = selected_day,
                                                      !.is_running = TRUE],
                     "toggle")
    /\ UNCHANGED <<csv_files, excel, metadata, today, calls, others>>

\* The process ends and a fresh one is started: web_server.py is imported
\* (lines 15-28) and start_server runs (1124-1135).
Restart ==
    /\ ret.op = "persist"
    /\ ret' = [ret EXCEPT !.scheduler_state = start_server(load_scheduler_state(ret.config)),
                          !.event = "restart"]
    /\ UNCHANGED <<csv_files, excel, metadata, today, calls, others>>

PersistNext == SetInterval \/ ToggleAndSave \/ Restart

PersistSpec == PersistInit /\ [][PersistNext]_vars

\* ------------------------------------------------------------ properties
\* The Snapshot of the source: the CSV backup of the data sheet.
Snapshot == csv_files[DataSheet]

SnapshotCols == <<"id", "name", "created_date">>

\* Fetched rows stamped with a created_date.
StampedRows(rows, day) ==
    [i \in 1..Len(rows) |->
       [id |-> rows[i].id, name |-> rows[i].name, created_date |-> day]]

KeysOf(rows) == {rows[i].id : i \in 1..Len(rows)}

\* The fetched rows whose key the rows `existing` do not have, in fetched order.
NewKeyRows(fetched, existing) ==
    SelectSeq(fetched, LAMBDA r : r.id \notin KeysOf(existing))

\* C1: a reconcile that finds no Snapshot file persists exactly the fetched
\* rows, in fetched order, each with created_date = today, and returns
\* total_rows = new_rows_count = the number of fetched rows.
C1_Bootstrap ==
    [][(ret'.op = "reconcile" /\ ~Snapshot.exists) =>
          /\ Snapshot'.exists
          /\ Snapshot'.cols = SnapshotCols
          /\ Snapshot'.rows = StampedRows(ret'.fetched.rows, DayNames[today])
          /\ ret'.total_rows = Len(ret'.fetched.rows)
          /\ ret'.new_rows_count = Len(ret'.fetched.rows)]_vars

C1_Witness ==
    /\ ret.op = "reconcile" /\ ret.no_backup
    /\ Len(ret.fetched.rows) = 2
    /\ ret.total_rows = 2 /\ ret.new_rows_count = 2
    /\ Len(Snapshot.rows) = 2

C4_Replacement ==
    [][(/\ ret'.op = "reconcile"
        /\ Snapshot.exists /\ Len(Snapshot.rows) > 0
        /\ ret'.flow # "B"
        /\ KeysOf(ret'.fetched.rows) \subseteq KeysOf(Snapshot.rows)) =>
          /\ Snapshot'.cols = SnapshotCols
          /\ Snapshot'.rows = StampedRows(ret'.fetched.rows, DayNames[today])
          /\ ret'.new_rows_count = 0]_vars

\* A replacement on the second day left fewer rows than two, all dated today.
C4_Witness ==
    /\ ret.op = "reconcile" /\ ret.flow = "C-replace"
    /\ today = 2
    /\ Len(Snapshot.rows) = 1
    /\ Snapshot.rows[1].created_date = DayNames[2]
    /\ Snapshot.rows[1].name = "Bobby"

\* C5: once a reconcile has bootstrapped the Snapshot from some rows, every
\* further reconcile with the identical rows (nothing else having touched the
\* files) returns the same total_rows and new_rows_count = 0 and leaves the
\* Snapshot and the cells of the Artifact as they were.
C5_Idempotence ==
    [][(ret'.op = "reconcile" /\ ret'.repeat) =>
          /\ Snapshot' = Snapshot
          /\ Content(excel') = Content(excel)
          /\ ret'.new_rows_count = 0
          /\ ret'.total_rows = ret.total_rows]_vars

\* C6: the tamper check reports the Excel file as manipulated exactly when
\* its bytes are not those of the engine's last write.
C6_TamperDetection ==
    excel.exists => (is_excel_manipulated(excel, metadata) <=> excel.by = "user")

\* The columns of an Artifact sheet that the Snapshot does not have.
CustomColumns(sheet, snap) == ColSet(sheet) \ ColSet(snap)

\* The value a sheet holds in column c for key k, '' for a key it lacks.
ValueFor(sheet, k, c) ==
    IF \E j \in 1..Len(sheet.rows) : sheet.rows[j].id = k
    THEN read_cell(sheet.rows[CHOOSE j \in 1..Len(sheet.rows) : sheet.rows[j].id = k][c])
    ELSE ""

\* Column c is in the data sheet of the workbook xl with, for every key of
\* the Snapshot snap, the value the sheet `old` had for that key.
CarriedOver(xl, snap, old, c) ==
    /\ HasSheet(xl, DataSheet)
    /\ HasCol(SheetOf(xl, DataSheet), c)
    /\ Len(SheetOf(xl, DataSheet).rows) = Len(snap.rows)
    /\ \A i \in 1..Len(snap.rows) :
          /\ SheetOf(xl, DataSheet).rows[i].id = snap.rows[i].id
          /\ SheetOf(xl, DataSheet).rows[i][c] = ValueFor(old, snap.rows[i].id, c)

\* C7: when reconcile finds the Artifact tampered and it has a column C the
\* new Snapshot lacks, the rewritten Artifact has C with, for every Snapshot
\* key, the value C had for it in the tampered Artifact ('' for a key the
\* tampered Artifact did not cover).
C7_CustomColumnPreservation ==
    [][(ret'.op = "reconcile" /\ ret'.manipulated /\ HasSheet(excel, DataSheet)) =>
          \A c \in CustomColumns(SheetOf(excel, DataSheet), Snapshot') :
              CarriedOver(excel', Snapshot', SheetOf(excel, DataSheet), c)]_vars

\* C8: whenever the Artifact exists and is tampered, its custom columns are
\* in the rewritten Artifact, whichever flow the reconcile takes.
C8_ReattachmentInEveryFlow ==
    [][(ret'.op = "reconcile" /\ ret'.manipulated /\ HasSheet(excel, DataSheet)) =>
          /\ HasSheet(excel', DataSheet)
          /\ CustomColumns(SheetOf(excel, DataSheet), Snapshot')
                \subseteq ColSet(SheetOf(excel', DataSheet))]_vars

\* C9: a custom column of the Artifact is still there, with its per-key
\* values, after a reconcile of a non-empty fetch that follows an engine write
\* of a non-empty sheet with no manual edit in between.
C9_CustomColumnsSurvive ==
    [][(/\ ret'.op = "reconcile"
        /\ excel.exists /\ excel.by = "engine"
        /\ HasSheet(excel, DataSheet)
        /\ Len(SheetOf(excel, DataSheet).rows) > 0
        /\ Len(ret'.fetched.rows) > 0) =>
          \A c \in CustomColumns(SheetOf(excel, DataSheet), Snapshot') :
              CarriedOver(excel', Snapshot', SheetOf(excel, DataSheet), c)]_vars

\* C10: right after a reconcile, a force restore, or the restore read_excel
\* performs on a manipulated file, the checksum in metadata.json is the
\* checksum of the Excel file on disk.
C10_DigestInvariant ==
    (\/ ret.op \in {"reconcile", "force_restore"}
     \/ (ret.op = "read_excel" /\ ret.restored)) =>
        /\ metadata.present
        /\ metadata.checksum = calculate_file_checksum(excel)

\* A write recorded for a call.
HasEvent(c, e) == \E k \in 1..Len(c.events) : c.events[k] = e

\* The rows of an Artifact sheet in the columns of the Snapshot snap, as a
\* reader gets them.
Projection(sheet, snap) ==
    [i \in 1..Len(sheet.rows) |->
        [x \in ColSet(snap) |-> read_cell(sheet.rows[i][x])]]

C12_MutualExclusion ==
    \A t, u \in Threads :
        (t # u /\ InFlight(t) /\ InFlight(u)) => calls[t].filename # calls[u].filename

\* C13: the updates of metadata.json are serialized: when two reconciles for
\* two distinct sources have both returned, the entry of neither is lost.
C13_RegistrySerialized ==
    \A t, u \in Threads :
        (/\ calls[t].pc = "returned" /\ calls[u].pc = "returned"
         /\ calls[t].filename # calls[u].filename)
            => \A f \in Files : EntryOf(f).present

\* The cells of an Artifact sheet in the columns of the Snapshot snap, as the
\* workbook holds them.
Cells(sheet, snap) ==
    [i \in 1..Len(sheet.rows) |-> [x \in ColSet(snap) |-> sheet.rows[i][x]]]

\* C14: after every successful reconcile or force_restore of a source that has
\* a Snapshot, the Artifact sheet has the Snapshot's keys and in every Snapshot
\* column the Snapshot's values, row by row; whatever a user changed in rows
\* and in engine-produced columns is gone.
C14_ArtifactProjection ==
    (ret.op \in {"reconcile", "force_restore"} /\ Snapshot.exists) =>
        /\ HasSheet(excel, DataSheet)
        /\ ColSet(Snapshot) \subseteq ColSet(SheetOf(excel, DataSheet))
        /\ Cells(SheetOf(excel, DataSheet), Snapshot) = Snapshot.rows

\* C15: however reconciles, force restores, runs of the backup utility and
\* manual edits of the Excel file follow each other, the keys in every CSV
\* backup on disk are pairwise distinct (every fetch has distinct keys).
C15_UniqueKeys ==
    \A n \in SheetNames :
        LET snap == load_csv_backup(csv_files[n])
        IN (snap.exists /\ Len(snap.cols) >= 1) =>
              \A i, j \in 1..Len(snap.rows) :
                  i # j => snap.rows[i][get_unique_column_name(snap)]
                              # snap.rows[j][get_unique_column_name(snap)]

\* Two frames agree in the sense of the specification: as many rows, and,
\* both sorted by the key column, the same values in every column they share,
\* created_date aside.
SharedColumnsAgree(a, b, unique_col) ==
    /\ Len(a.rows) = Len(b.rows)
    /\ \A x \in (ColSet(a) \cap ColSet(b)) \ {"created_date"} :
          Column(sort_values(a, unique_col), x) = Column(sort_values(b, unique_col), x)

\* C16: for a CSV backup with rows, changed is false exactly when the fetched
\* rows and the backup have as many rows and agree, sorted by key and
\* created_date aside, in every column they share; the order of the fetched
\* rows and a column only one side has do not count.
C16_ChangeDetection ==
    ret.op = "detect" =>
        (ret.changed = FALSE <=> SharedColumnsAgree(ret.new_data, ret.csv_backup, "id"))

\* The rows without their created_date.
OtherFields(rows) == {[id |-> rows[i].id, name |-> rows[i].name] : i \in 1..Len(rows)}

\* The created_date each key carries in the rows.
DatesByKey(rows) == {<<rows[i].id, rows[i].created_date>> : i \in 1..Len(rows)}

\* C17: created_date is no part of the comparison.  A reconcile on a later
\* day than the dates in the Snapshot, with fetched rows that equal the
\* Snapshot's rows in id and name, is Flow B with new_rows_count = 0; and in
\* Flow B and in an additive merge every row the Snapshot had keeps its
\* created_date.
C17_CreatedDateExcluded ==
    [][(ret'.op = "reconcile" /\ Snapshot.exists /\ Len(Snapshot.rows) > 0) =>
          /\ (/\ \A i \in 1..Len(Snapshot.rows) :
                    Snapshot.rows[i].created_date # DayNames[today]
              /\ Len(ret'.fetched.rows) = Len(Snapshot.rows)
              /\ OtherFields(ret'.fetched.rows) = OtherFields(Snapshot.rows))
                => (ret'.flow = "B" /\ ret'.new_rows_count = 0)
          /\ ret'.flow \in {"B", "C-merge"}
                => DatesByKey(Snapshot.rows) \subseteq DatesByKey(Snapshot'.rows)]_vars

\* C18: the batch in main gets from the reconcile of every sheet, in the shape
\* it unpacks, the number of rows of the new CSV backup, new_rows_count, and
\* the rows whose keys are new: the fetched rows whose key the CSV backup did
\* not have.
C18_Result ==
    [][ret'.op = "main" =>
          /\ ret'.error = ""
          /\ Len(ret'.received) = Len(ret'.sheet_names)
          /\ \A k \in 1..Len(ret'.received) :
                LET n == ret'.sheet_names[k]
                    got == ret'.received[k]
                    new_keys == KeysOf(ret'.fetched[k].rows)
                                   \ KeysOf(load_csv_backup(csv_files[n]).rows)
                IN /\ got.total_rows = Len(csv_files'[n].rows)
                   /\ got.new_rows = Cardinality(new_keys)
                   /\ Len(got.new_rows_df.rows) = got.new_rows
                   /\ KeysOf(got.new_rows_df.rows) = new_keys]_vars

\* C19: a force restore of a source that has a Snapshot leaves the Excel file
\* with the Snapshot's columns and rows and nothing else (no custom column),
\* whether or not the file had been edited, and records its checksum, so that
\* verify_file_integrity finds the file valid.
C19_ForceRestore ==
    (ret.op = "force_restore" /\ Snapshot.exists) =>
        /\ excel.exists
        /\ Content(excel) = <<Sheet(DataSheet, Snapshot)>>
        /\ metadata.present
        /\ metadata.checksum = calculate_file_checksum(excel)
        /\ verify_file_integrity(excel, metadata)

\* How many times a write is recorded for a call.
CountEvent(c, e) == Cardinality({k \in 1..Len(c.events) : c.events[k] = e})

\* C20: every turn of the loop of write_multiple_sheets_incremental leaves for
\* its sheet the CSV backup, and queues the (total_rows, new_rows_count), that
\* write_excel_incremental gives for that sheet alone from the same files;
\* the manipulation flag taken once at entry is the one that call would
\* compute; the turn touches neither another sheet's CSV backup nor the Excel
\* file nor the metadata, and the call writes the Excel file once, after the
\* last sheet.
C20_MultiRefinesSingle ==
    /\ [][calls["scheduler"].pc = "sheets" /\ calls'["scheduler"] # calls["scheduler"] =>
            LET c == calls["scheduler"]
                n == c.sheet_names[c.i]
                single == write_excel_incremental(c.dataframes[c.i], csv_files[n],
                              excel, metadata, n, DayNames[today])
            IN /\ csv_files'[n] = single.csv
               /\ calls'["scheduler"].results[c.i]
                     = <<single.total_rows, single.new_rows_count>>
               /\ c.excel_was_manipulated = single.manipulated
               /\ \A m \in SheetNames \ {n} : csv_files'[m] = csv_files[m]
               /\ excel' = excel /\ metadata' = metadata]_vars
    /\ [][(InFlight("scheduler") /\ excel' # excel) =>
            /\ calls["scheduler"].pc = "excel"
            /\ Len(calls["scheduler"].results) = Len(calls["scheduler"].sheet_names)
            /\ CountEvent(calls["scheduler"], "excel") = 0]_vars
    /\ [](calls["scheduler"].pc = "returned" =>
            CountEvent(calls["scheduler"], "excel") = 1)

\* A call on a file a person has edited, on its second sheet, where no key is
\* new and a name has changed: the CSV backup of Table_2 was replaced.
C20_Witness ==
    LET c == calls["scheduler"]
    IN /\ c.pc = "excel"
       /\ c.excel_was_manipulated
       /\ c.results = <<<<1, 0>>, <<1, 0>>>>
       /\ c.events = <<"csv">>
       /\ csv_files[MultiSheets[2]].rows[1].name = "Bobby"

\* What is on disk for a source, as the DataHandler reads it.
FilesOf(f) == [csv |-> CsvsOf(f), excel |-> ExcelOf(f), entry |-> EntryOf(f)]

\* C21: in a batch, whatever happens while main is at one source (its fetch
\* fails, a write of its reconcile fails), the CSV backups, the Excel file and
\* the metadata entry of every other source stay as they are, and main still
\* takes every later source in turn: a batch ends only after the last one.
C21_FailureIsolation ==
    /\ [][BatchRunning =>
            \A g \in Files \ {Sources[ret.i]} : FilesOf(g)' = FilesOf(g)]_vars
    /\ [](ret.op = "batch" => Len(ret.outcomes) = ret.i - 1)

\* C22: a save of metadata.json that fails leaves the file as it was: the
\* dict _load_metadata returns after the failed save is the one it returned
\* before, with the entries of all sources.
C22_FailedSaveKeepsRegistry ==
    [][(calls["scheduler"].pc = "save"
        /\ HasEvent(calls'["scheduler"], "metadata failed")) =>
          Registry' = Registry]_vars

\* C23: when metadata.json cannot be saved, the reconcile does not return to
\* its caller as a success: it ends with an exception.
C23_FailedSaveSurfaced ==
    [][(calls["scheduler"].pc = "save"
        /\ HasEvent(calls'["scheduler"], "metadata failed")) =>
          calls'["scheduler"].pc = "raised"]_vars

\* The empty dict.
EmptyRegistry == [f \in Files |-> NoEntry]

\* C24: with metadata.json unparsable (or missing), _load_metadata returns
\* the empty dict; a reconcile entered in that state takes the Excel file as
\* not manipulated, reads the empty dict when it updates the metadata, and its
\* save leaves a parsable file with the entry of its Excel file and the
\* checksum of that file.
C24_CorruptMetadataNonFatal ==
    /\ [](others.corrupt => Registry = EmptyRegistry)
    /\ [][(others.corrupt /\ calls["scheduler"].pc = "idle"
           /\ InFlight("scheduler")') =>
             ~calls'["scheduler"].excel_was_manipulated]_vars
    /\ [][(others.corrupt /\ calls["scheduler"].pc = "metadata"
           /\ calls'["scheduler"].pc = "save") =>
             calls'["scheduler"].loaded = EmptyRegistry]_vars
    /\ [][(others.corrupt /\ calls["scheduler"].pc = "save"
           /\ HasEvent(calls'["scheduler"], "metadata")) =>
             /\ ~others'.corrupt
             /\ calls'["scheduler"].pc = "returned"
             /\ EntryOf(calls["scheduler"].filename)'
                   = update_file_metadata(ExcelOf(calls["scheduler"].filename),
                                          calls["scheduler"].sheet_names)]_vars

\* A reconcile of acme.xlsx that began with metadata.json truncated, has
\* written the Excel file and is about to save the metadata; the entry last
\* written for the file carries an older checksum.
C24_Witness ==
    /\ others.corrupt
    /\ calls["scheduler"].pc = "save"
    /\ calls["scheduler"].filename = ExcelName
    /\ calls["scheduler"].events = <<"excel">>
    /\ metadata.present
    /\ metadata.checksum # calculate_file_checksum(excel)

\* C25: a frame of text written to the CSV backup and read back has the same
\* columns in the same order and in every cell of every row exactly the
\* string that was written.
C25_SnapshotRoundTrip ==
    ret.op = "loaded" =>
        /\ ret.read.exists
        /\ ret.read.cols = ret.written.cols
        /\ ret.read.rows = ret.written.rows

\* C26: two different source names are given different Excel files, and two
\* different (source, sheet) pairs are given different CSV backup files.
C26_DisjointFiles ==
    ret.op = "files" =>
        /\ ret.a.name # ret.b.name => ret.a.excel # ret.b.excel
        /\ <<ret.a.name, ret.a.sheet>> # <<ret.b.name, ret.b.sheet>>
              => ret.a.csv # ret.b.csv

\* C27: when the reconciles of both threads have returned, and nobody edited
\* an Excel file, the checksum metadata.json holds for every Excel file on
\* disk is the checksum of that file.
C27_DigestMatchesArtifact ==
    (\A t \in Threads : calls[t].pc = "returned")
        => \A f \in Files :
              ExcelOf(f).exists
                  => /\ EntryOf(f).present
                     /\ EntryOf(f).checksum = calculate_file_checksum(ExcelOf(f))

\* C28: from the third reconcile in a row with the same fetched rows (at least
\* one row, keys distinct) on, every call takes Flow B and leaves the CSV
\* backup as it is.
C28_Convergence ==
    [][(ret'.op = "reconcile" /\ ret'.streak >= 3 /\ Len(ret'.fetched.rows) > 0) =>
          /\ ret'.flow = "B"
          /\ Snapshot' = Snapshot]_vars

\* C29: once a call has returned, every key has been reported in the new_rows
\* of a call that returned exactly as often as it came into the CSV backup,
\* also when calls before it raised after writing the CSV backup.
C29_CountedOnce ==
    (ret.op = "ledger" /\ ret.last = "returned")
        => \A k \in FetchKeys : ret.counted[k] = ret.entered[k]

\* C30: a reconcile whose fetched table has columns and no rows leaves every
\* row of a CSV backup that has rows where it is.
C30_EmptyFetchKeepsRows ==
    [][(/\ ret'.op = "reconcile"
        /\ Len(ret'.fetched.cols) > 0 /\ Len(ret'.fetched.rows) = 0
        /\ Snapshot.exists /\ Len(Snapshot.rows) > 0)
          => Snapshot'.rows = Snapshot.rows]_vars

\* C31: a force_restore of an Excel file that finds no CSV backup for any of
\* the sheets it was asked for leaves the file and the checksum in
\* metadata.json as they are, so
\* an edited file is reported as manipulated after it as before.
C31_NoBackupNoRestore ==
    [][(/\ ret'.op = "force_restore"
        /\ excel.exists
        /\ \A i \in 1..Len(ret'.sheet_names) :
              ~CsvAt(csv_files, ret'.sheet_names[i]).exists)
          => /\ excel' = excel
             /\ metadata'.checksum = metadata.checksum
             /\ is_excel_manipulated(excel', metadata')
                   = is_excel_manipulated(excel, metadata)]_vars

\* C32: no CSV backup ever has the column Notes a person added to the Excel
\* file, nor a row with a key that was never fetched.
C32_SnapshotFromFetchOnly ==
    \A n \in SheetNames :
        csv_files[n].exists =>
            /\ ~HasCol(csv_files[n], "Notes")
            /\ \A i \in 1..Len(csv_files[n].rows) : csv_files[n].rows[i].id \in FetchKeys

\* C33: a read_excel that found the Excel file manipulated returns for the
\* sheet the columns and rows of its CSV backup as a reader gets them (no
\* custom column), and leaves a file that is no longer found manipulated, so
\* that the next read_excel restores nothing.
C33_ReadExcelRestores ==
    (ret.op = "read_excel" /\ ret.manipulated /\ Snapshot.exists) =>
        /\ ret.result.exists
        /\ ret.result.cols = load_csv_backup(Snapshot).cols
        /\ ret.result.rows = load_csv_backup(Snapshot).rows
        /\ ~is_excel_manipulated(excel, metadata)

\* The keys of the fetched tables of a run of main that the CSV backups did
\* not have, counted over the sheets.
RECURSIVE NewKeyCount(_, _, _)
NewKeyCount(sheet_names, fetched, csvs) ==
    IF Len(sheet_names) = 0 THEN 0
    ELSE Cardinality(KeysOf(fetched[1].rows)
                        \ KeysOf(load_csv_backup(csvs[sheet_names[1]]).rows))
         + NewKeyCount(Tail(sheet_names), Tail(fetched), csvs)

RECURSIVE RowCount(_, _)
RowCount(sheet_names, csvs) ==
    IF Len(sheet_names) = 0 THEN 0
    ELSE Len(csvs[sheet_names[1]].rows) + RowCount(Tail(sheet_names), csvs)

\* C34: when the reconcile of a source in a run of main added rows, the entry
\* of the source handed to the notifier has the number of rows of its CSV
\* backups and the number of rows added, and the run's total of new entries
\* is that number.
C34_NotificationPayload ==
    [][(ret'.op = "main" /\ NewKeyCount(ret'.sheet_names, ret'.fetched, csv_files) > 0) =>
          /\ source_status(ret'.all_changes).new_rows
                = NewKeyCount(ret'.sheet_names, ret'.fetched, csv_files)
          /\ source_status(ret'.all_changes).total_rows
                = RowCount(ret'.sheet_names, csv_files')
          /\ sum_new_rows(ret'.all_changes)
                = NewKeyCount(ret'.sheet_names, ret'.fetched, csv_files)]_vars

\* C35: a call of write_multiple_sheets_incremental that raised has written
\* no CSV backup, not the Excel file and no metadata entry.
C35_FailedMultiCommitsNothing ==
    \A t \in Threads :
        (calls[t].pc = "raised" /\ calls[t].multi)
            => \A e \in {"csv", "excel", "metadata"} : ~HasEvent(calls[t], e)

\* The scheduler loop threads that have been started and have not returned.
ActiveLoops == {i \in LoopIds : ret.loops[i] \notin {"none", "exited"}}

\* C36: at most one scheduler loop thread is active at any time, and a loop
\* thread starts a batch only while the scheduler is switched on.
C36_SchedulerStartStop ==
    /\ [](ret.op = "server" => Cardinality(ActiveLoops) <= 1)
    /\ [][ret'.event = "scheduled batch" => ret.is_running]_vars


\* The batch processes in execution: threads inside run_batch_process.
ExecutingBatches ==
    Cardinality({i \in LoopIds : ret.loops[i] = "batch"})
        + Cardinality({j \in RunIds : ret.runs[j] = "batch"})

\* C37: batch_state['is_running'] is true exactly while at least one batch
\* process is executing, and once no batch is executing last_result is the
\* result of the batch that finished last.
C37_BatchFlagAccurate ==
    ret.op = "server" =>
        /\ ret.batch_is_running = (ExecutingBatches >= 1)
        /\ (ExecutingBatches = 0 /\ ret.finished_last # "None")
              => ret.last_result = ret.finished_last


\* The day of the week of day d as the settings count it (0 = Sunday).
day_of_week(d) == (weekday(d) + 1) % 7

\* C38: consecutive scheduled batch runs start exactly interval_days days
\* apart, and each run falls on the selected weekday when the interval is a
\* multiple of 7.
C38_ScheduleCadence ==
    ret.op = "schedule" =>
        /\ \A k \in 1..Len(ret.started) - 1 :
              ret.started[k + 1] - ret.started[k] = ret.interval_days
        /\ ret.interval_days % 7 = 0 =>
              \A k \in 1..Len(ret.started) : day_of_week(ret.started[k]) = ret.selected_day


\* C39: a fresh process that loads the scheduler state has the interval_days
\* and selected_day of the last save, and its scheduler runs exactly when it
\* was running at the last save.
C39_SettingsPersist ==
    (ret.op = "persist" /\ ret.event = "restart" /\ ret.has_saved) =>
        /\ ret.scheduler_state.interval_days = ret.saved.interval_days
        /\ ret.scheduler_state.selected_day = ret.saved.selected_day
        /\ ret.scheduler_state.is_running = ret.saved.is_running

====
